---- MODULE Spec2Model ----
(***************************************************************************)
(* Feed acquisition core of YATTR: the concurrent fetch scheduler          *)
(* (backend/scheduler.py), the manual refresh endpoints (backend/main.py), *)
(* the ingestion pipeline and the due-feed selector (backend/fetcher.py).  *)
(*                                                                         *)
(* The specifications share the variables:                                 *)
(*   SpecSched   the in-flight set, the worker pool, shutdown, manual      *)
(*               refresh requests                                          *)
(*   SpecIngest  process_feed / upsert_entries transactions on the store   *)
(*   SpecDue     iter_due_feeds on a table of feeds                        *)
(*   SpecTick    _run_fetch_tick as one step, with the jobs it submits     *)
(*   SpecFeed    process_feed runs on the feed rows and the fetch log      *)
(*   SpecNet     the outbound safety gate, the requests behind it and the  *)
(*               limited readers (backend/network_safety.py)               *)
(*   SpecRetry   fetch_feed under @retry and what process_feed records     *)
(*   SpecRules   apply_filters on a table of rules (backend/rules.py)      *)
(*   SpecSweep   cleanup_old_entries on the store and the image cache      *)
(*               (backend/cleanup.py)                                      *)
(*   SpecJob     _run_feed_job from the lookup of the feed row to the      *)
(*               finally clause                                            *)
(***************************************************************************)
EXTENDS Integers, Sequences, FiniteSets, TLC

VARIABLES
  \* ---- scheduler.py module state and threads
  feed_in_flight,   \* _feed_in_flight: set of feed ids
  feed_executor,    \* _feed_executor: "none" (None) or "current"
  jobs,             \* work items queued or running, in submission order
  pc,               \* position of each thread inside enqueue_feed_update
  callFeed,         \* feed_id argument of the call a thread is executing
  callExec,         \* local variable executor of the call
  tickDue,          \* feed ids the running fetch tick still has to enqueue
  sdpc,             \* position of the thread running shutdown_feed_workers
  sdExec,           \* its local variable executor
  manual,           \* the manual refresh request main.py is serving
  \* ---- the relational store and the sessions running process_feed
  entries,          \* committed rows of table entries
  states,           \* committed rows of table user_entry_state
  writeLock,        \* session holding SQLite's write lock, or "free"
  run,              \* per session: the process_feed run it executes
  runsStarted,      \* number of process_feed runs started so far
  \* ---- iter_due_feeds
  feeds,            \* committed rows of table feeds
  sess,             \* the rows as loaded (and mutated) by the scanning session
  due,              \* the sequence of feed ids the scan yielded
  now,              \* int(time.time())
  scanned,          \* a scan ran in the open session
  \* ---- _run_fetch_tick as a whole
  tickCalls,        \* feed ids the last tick passed to enqueue_feed_update
  tickMarked,       \* feed ids the last tick's scan marked disabled
  \* ---- process_feed on the feed row
  fobj,             \* per session: the Feed object and FetchLog of its run
  logs,             \* committed rows of table fetch_logs
  \* ---- network_safety.py
  block,            \* settings.network_block_private
  gate,             \* the last application of ensure_safe_outbound_url
  call,             \* the fetch_*_response call in progress
  checked,          \* URLs the gate returned during that call
  sent,             \* requests the client put on the wire during that call
  rdr,              \* the last application of the two limited readers
  \* ---- operations checked on their own
  rt,               \* fetch_feed under its retry decorator, in one run
  flt,              \* the last application of apply_filters
  swp               \* the last cleanup sweep

schedVars == <<feed_in_flight, feed_executor, jobs, pc, callFeed, callExec,
               tickDue, sdpc, sdExec, manual>>
dbVars == <<entries, states, writeLock, run, runsStarted>>
dueVars == <<feeds, sess, due, now, scanned>>
tickVars == <<tickCalls, tickMarked>>
feedVars == <<fobj, logs>>
netVars == <<block, gate, call, checked, sent, rdr>>
unitVars == <<rt, flt, swp>>
vars == <<schedVars, dbVars, dueVars, tickVars, feedVars, netVars, unitVars>>

\* what the steps of one component leave alone
notSched == <<dbVars, dueVars, tickVars, feedVars, netVars, unitVars>>
notDb == <<schedVars, dueVars, tickVars, feedVars, netVars, unitVars>>
notDue == <<schedVars, dbVars, tickVars, feedVars, netVars, unitVars>>
notNet == <<schedVars, dbVars, dueVars, tickVars, feedVars, unitVars>>

\* no URL was checked, no request made, no body read; blocking is on, the
\* default of RSS_NETWORK_BLOCK_PRIVATE
NetIdle ==
  /\ block = TRUE
  /\ gate = <<>>
  /\ call = <<>>
  /\ checked = {}
  /\ sent = <<>>
  /\ rdr = <<>>

\* no retry loop, filter application or sweep has run
UnitIdle ==
  /\ rt = <<>>
  /\ flt = <<>>
  /\ swp = <<>>

FeedIds == {1, 2}
UserIds == {1, 2}
\* Feed.user_id of the modelled feeds
OwnerOf(f) == IF f = 1 THEN 1 ELSE 2

Max(a, b) == IF a >= b THEN a ELSE b
Min(a, b) == IF a <= b THEN a ELSE b

(***************************************************************************)
(* Bounds of the model                                                     *)
(***************************************************************************)
MaxLive == 2     \* enqueue calls in progress plus work items not yet finished

(***************************************************************************)
(* scheduler.py                                                            *)
(***************************************************************************)
\* settings.scheduler_max_feeds_per_tick (RSS_SCHEDULER_MAX_FEEDS_PER_TICK)
scheduler_max_feeds_per_tick == 2

\* a pool with one worker more than _resolve_feed_worker_count allows
WorkerCountOneMore ==
  Max(1, Min(4, Max(1, scheduler_max_feeds_per_tick))) + 1

\* _resolve_feed_worker_count
_resolve_feed_worker_count ==
  LET max_feeds == Max(1, scheduler_max_feeds_per_tick)
  IN  Max(1, Min(4, max_feeds))

Callers == {"tick", "api"}
NoFeed == 0

\* A ThreadPoolExecutor object is named by what has happened to it:
\*   "current"  it is the value of _feed_executor
\*   "closing"  shutdown_feed_workers took it (line 41) and has not yet
\*              called its shutdown()
\*   "down"     its shutdown() was called
\* "none" is None.
JobIdx == 1..Len(jobs)
RunningOn(e) == {j \in JobIdx : jobs[j].exec = e /\ jobs[j].st = "running"}
QueuedOn(e) == {j \in JobIdx : jobs[j].exec = e /\ jobs[j].st = "queued"}
\* calls that passed the membership check and have not returned yet
Accepted(t) == pc[t] \in {"get_executor", "submit"}
CallsInProgress == {t \in Callers : pc[t] # "idle"}

RemoveAt(s, i) == SubSeq(s, 1, i - 1) \o SubSeq(s, i + 1, Len(s))

\* main.py serves no manual refresh request
NoRequest == [endpoint |-> "none", feed |-> NoFeed, background |-> FALSE,
              via |-> "none", queued |-> FALSE]

SchedInit ==
  /\ feed_in_flight = {}
  /\ feed_executor = "none"
  /\ jobs = <<>>
  /\ pc = [t \in Callers |-> "idle"]
  /\ callFeed = [t \in Callers |-> NoFeed]
  /\ callExec = [t \in Callers |-> "none"]
  /\ tickDue = <<>>
  /\ sdpc = "idle"
  /\ sdExec = "none"
  /\ manual = NoRequest

RECURSIVE SetToSeq(_)
SetToSeq(S) ==
  IF S = {} THEN <<>>
  ELSE LET m == CHOOSE x \in S : \A y \in S : x <= y
       IN  <<m>> \o SetToSeq(S \ {m})

\* feed_ids[:max_feeds]
Take(s, n) == SubSeq(s, 1, Min(Len(s), n))

\* _run_fetch_tick starts (APScheduler runs one instance at a time) and
\* _collect_due_feed_ids gives it the due feed ids, in table order, cut to
\* max(1, scheduler_max_feeds_per_tick)
RunFetchTick ==
  /\ pc["tick"] = "idle"
  /\ tickDue = <<>>
  /\ \E D \in SUBSET FeedIds :
       /\ D # {}
       /\ tickDue' = Take(SetToSeq(D), Max(1, scheduler_max_feeds_per_tick))
  /\ UNCHANGED <<feed_in_flight, feed_executor, jobs, pc, callFeed, callExec,
                 sdpc, sdExec, manual>>

\* the feed id thread t passes to enqueue_feed_update
CallArg(t, f) ==
  IF t = "tick" THEN tickDue # <<>> /\ f = Head(tickDue) ELSE TRUE

\* enqueue_feed_update, lines 118-121: membership test and insert under
\* _feed_in_flight_lock; returns False when the id is already in the set
CheckAndInsert(t, f) ==
  IF f \in feed_in_flight
  THEN /\ pc' = [pc EXCEPT ![t] = "idle"]
       /\ callFeed' = [callFeed EXCEPT ![t] = NoFeed]
       /\ UNCHANGED feed_in_flight
  ELSE /\ feed_in_flight' = feed_in_flight \cup {f}
       /\ pc' = [pc EXCEPT ![t] = "get_executor"]
       /\ callFeed' = [callFeed EXCEPT ![t] = f]

EnqueueFeedUpdate(t, f) ==
  /\ pc[t] = "idle"
  /\ CallArg(t, f)
  /\ Len(jobs) + Cardinality(CallsInProgress) < MaxLive
  /\ CheckAndInsert(t, f)
  /\ tickDue' = IF t = "tick" THEN Tail(tickDue) ELSE tickDue
  /\ UNCHANGED <<feed_executor, jobs, callExec, sdpc, sdExec, manual>>

\* _get_feed_executor under _feed_executor_lock: creates the pool when None
GetFeedExecutor(t) ==
  /\ pc[t] = "get_executor"
  /\ feed_executor' = "current"
  /\ callExec' = [callExec EXCEPT ![t] = "current"]
  /\ pc' = [pc EXCEPT ![t] = "submit"]
  /\ UNCHANGED <<feed_in_flight, jobs, callFeed, tickDue, sdpc, sdExec, manual>>

\* executor.submit(_run_feed_job, ...): queues a work item and the call
\* returns True; on a pool already shut down submit raises RuntimeError
Submit(t) ==
  /\ pc[t] = "submit"
  /\ IF callExec[t] = "down"
     THEN /\ pc' = [pc EXCEPT ![t] = "except"]
          /\ UNCHANGED <<jobs, callFeed, callExec>>
     ELSE /\ jobs' = Append(jobs, [feed |-> callFeed[t], exec |-> callExec[t],
                                   st |-> "queued"])
          /\ pc' = [pc EXCEPT ![t] = "idle"]
          /\ callFeed' = [callFeed EXCEPT ![t] = NoFeed]
          /\ callExec' = [callExec EXCEPT ![t] = "none"]
  /\ UNCHANGED <<feed_in_flight, feed_executor, tickDue, sdpc, sdExec, manual>>

\* enqueue_feed_update, lines 131-134: discard the id and re-raise
EnqueueExcept(t) ==
  /\ pc[t] = "except"
  /\ feed_in_flight' = feed_in_flight \ {callFeed[t]}
  /\ pc' = [pc EXCEPT ![t] = "idle"]
  /\ callFeed' = [callFeed EXCEPT ![t] = NoFeed]
  /\ callExec' = [callExec EXCEPT ![t] = "none"]
  \* the exception leaves the loop of _run_fetch_tick
  /\ tickDue' = IF t = "tick" THEN <<>> ELSE tickDue
  /\ UNCHANGED <<feed_executor, jobs, sdpc, sdExec, manual>>

\* a pool worker takes the oldest queued work item of its pool and calls
\* _run_feed_job; a pool has _resolve_feed_worker_count workers.  The pools
\* that are "down" hold no queued item (ShutdownExecutor cancelled them).
JobStart(j) ==
  /\ j \in JobIdx
  /\ jobs[j].st = "queued"
  /\ \A k \in QueuedOn(jobs[j].exec) : j <= k
  /\ Cardinality(RunningOn(jobs[j].exec)) < _resolve_feed_worker_count
  /\ jobs' = [jobs EXCEPT ![j].st = "running"]
  /\ UNCHANGED <<feed_in_flight, feed_executor, pc, callFeed, callExec, tickDue,
                 sdpc, sdExec, manual>>

\* _run_feed_job with the discard after the call instead of in a finally
\* clause: an exception of the job skips it
RunFeedJobExitNoFinally(in_flight, feed_id, raised) ==
  IF raised THEN in_flight ELSE in_flight \ {feed_id}

\* _run_feed_job: the finally clause discards the id whether
\* _process_feed_job returned or raised
RunFeedJobExit(in_flight, feed_id, raised) == in_flight \ {feed_id}

JobFinish(j, raised) ==
  /\ j \in JobIdx
  /\ jobs[j].st = "running"
  /\ feed_in_flight' = RunFeedJobExit(feed_in_flight, jobs[j].feed, raised)
  /\ jobs' = RemoveAt(jobs, j)
  /\ UNCHANGED <<feed_executor, pc, callFeed, callExec, tickDue, sdpc, sdExec,
                 manual>>

\* what becomes of a reference to the pool when shutdown_feed_workers takes
\* the current pool
Taken(e) == IF e = "current" THEN "closing" ELSE e
\* ... and when it calls shutdown() on the pool it took
Closed(e) == IF e = "closing" THEN "down" ELSE e

\* shutdown_feed_workers, lines 40-42
ShutdownTakeExecutor ==
  /\ sdpc = "idle"
  /\ sdExec' = Taken(feed_executor)
  /\ feed_executor' = "none"
  /\ jobs' = [j \in JobIdx |-> [jobs[j] EXCEPT !.exec = Taken(@)]]
  /\ callExec' = [t \in Callers |-> Taken(callExec[t])]
  /\ sdpc' = "clear"
  /\ UNCHANGED <<feed_in_flight, pc, callFeed, tickDue, manual>>

\* shutdown_feed_workers, lines 43-44
ShutdownClear ==
  /\ sdpc = "clear"
  /\ feed_in_flight' = {}
  /\ sdpc' = "shutdown"
  /\ UNCHANGED <<feed_executor, jobs, pc, callFeed, callExec, tickDue, sdExec,
                 manual>>

\* the work items of pool e that shutdown(wait=False, cancel_futures=True)
\* leaves: the queued ones are cancelled, the running ones go on
RECURSIVE CancelQueued(_, _)
CancelQueued(js, e) ==
  IF js = <<>> THEN <<>>
  ELSE LET rest == CancelQueued(Tail(js), e)
       IN  IF Head(js).exec = e /\ Head(js).st = "queued"
           THEN rest
           ELSE <<Head(js)>> \o rest

\* shutdown_feed_workers, lines 45-50
ShutdownExecutor ==
  /\ sdpc = "shutdown"
  /\ IF sdExec = "none"
     THEN UNCHANGED <<jobs, callExec>>
     ELSE /\ jobs' = [j \in 1..Len(CancelQueued(jobs, "closing")) |->
                        [CancelQueued(jobs, "closing")[j] EXCEPT !.exec = Closed(@)]]
          /\ callExec' = [t \in Callers |-> Closed(callExec[t])]
  /\ sdpc' = "idle"
  /\ sdExec' = "none"
  /\ UNCHANGED <<feed_in_flight, feed_executor, pc, callFeed, tickDue, manual>>

(***************************************************************************)
(* main.py: the manual refresh endpoints                                   *)
(***************************************************************************)
\* fetch_once / debug_refresh_feed: with background=true the request adds
\* _process_feed_in_background as a background task and answers queued=True,
\* otherwise it calls process_feed itself and answers queued=False
ManualRefresh(endpoint, f, background) ==
  /\ manual = NoRequest
  /\ manual' = [endpoint |-> endpoint, feed |-> f, background |-> background,
                via |-> IF background THEN "background_task"
                        ELSE "process_feed",
                queued |-> background]
  /\ UNCHANGED <<feed_in_flight, feed_executor, jobs, pc, callFeed, callExec,
                 tickDue, sdpc, sdExec>>

fetch_once(f, background) == ManualRefresh("fetch", f, background)
debug_refresh_feed(f, background) == ManualRefresh("debug_refresh", f, background)

\* the process_feed run main.py started returns and the caller commits
ManualRunFinish ==
  /\ manual # NoRequest
  /\ manual' = NoRequest
  /\ UNCHANGED <<feed_in_flight, feed_executor, jobs, pc, callFeed, callExec,
                 tickDue, sdpc, sdExec>>

(***************************************************************************)
(* fetcher.py: the ingestion pipeline, on the store of models.py           *)
(***************************************************************************)
MaxRuns == 2     \* process_feed runs started in one behaviour

\* Items of a parsed document.  "" is a key that is missing, None or empty
\* (all falsy in Python).  ItemA and ItemB have different keys and the same
\* dedup hash; ItemD has neither guid nor link.
ItemA == [id |-> "a", guid |-> "", link |-> "", title |-> "Hello"]
ItemB == [id |-> "", guid |-> "", link |-> "a", title |-> ""]
ItemC == [id |-> "", guid |-> "", link |-> "b", title |-> ""]
ItemD == [id |-> "", guid |-> "g", link |-> "b", title |-> "Hello"]
ItemE == [id |-> "", guid |-> "", link |-> "", title |-> "Hello"]
ItemF == [id |-> "", guid |-> "", link |-> "", title |-> ""]

\* the parsed documents a fetch may return
Docs == { <<>>, <<ItemA>>, <<ItemA, ItemB>>, <<ItemB, ItemC>>, <<ItemC, ItemC>>,
          <<ItemD, ItemE>>, <<ItemE, ItemF>> }

\* what fetch_feed does: it raises, returns the 304 sentinel, or returns a
\* parsed document
FetchResults ==
  {[kind |-> "error", doc |-> <<>>], [kind |-> "304", doc |-> <<>>]}
    \cup {[kind |-> "ok", doc |-> d] : d \in Docs}

\* Python's `x or y`
Or(x, y) == IF x # "" THEN x ELSE y

\* hashlib.sha256(...).hexdigest(), taken to be injective
Sha256(text) == <<"sha256", text>>

\* _hash_entry keyed on guid and title only
HashEntryNoLink(guid, link, title) == Sha256(Or(guid, Or(title, "")))

\* _hash_entry
_hash_entry(guid, link, title) == Sha256(Or(guid, Or(link, Or(title, ""))))

\* upsert_entries, lines 148-150
ItemGuid(item) == Or(item.id, item.guid)
ItemTitle(item) == Or(item.title, "(untitled)")
\* upsert_entries, line 182
EntryHash(item) == _hash_entry(ItemGuid(item), item.link, ItemTitle(item))

\* upsert_entries, lines 183-187: the lookup by (feed_id, hash)
Exists(E, f, h) == \E e \in E : e.feed_id = f /\ e.hash = h

\* the rowid SQLite gives a row inserted into a table holding the rows E
\* (Entry.id is an INTEGER PRIMARY KEY without AUTOINCREMENT)
NextRowId(E) ==
  IF E = {} THEN 1
  ELSE 1 + (CHOOSE m \in {e.id : e \in E} : \A e \in E : e.id <= m)

\* upsert_entries, lines 191-202
NewEntry(E, f, item) ==
  [id |-> NextRowId(E), feed_id |-> f, guid |-> ItemGuid(item),
   url |-> item.link, title |-> ItemTitle(item), hash |-> EntryHash(item)]

\* a table entries without the constraint uq_entries_feed_hash
NoUniqueConstraint(E, f, h) == FALSE

\* models.py, Entry.__table_args__: UniqueConstraint("feed_id", "hash")
\* rejects the insert (IntegrityError)
UniqueViolation(E, f, h) == \E e \in E : e.feed_id = f /\ e.hash = h

\* the primary key (user_id, entry_id) of user_entry_state
HasState(S, u, eid) == \E r \in S : r.user_id = u /\ r.entry_id = eid
StateOf(S, u, eid) == CHOOSE r \in S : r.user_id = u /\ r.entry_id = eid

\* an upsert that writes no state row
InsertStateNothing(S, u, eid) == S

\* upsert_entries, lines 205-216: INSERT ... ON CONFLICT DO NOTHING
InsertState(S, u, eid) ==
  IF HasState(S, u, eid) THEN S
  ELSE S \cup {[user_id |-> u, entry_id |-> eid, is_read |-> FALSE,
                is_starred |-> FALSE, is_later |-> FALSE]}

\* str.lower() on the titles of the model
Lower(text) == IF text = "Hello" THEN "hello" ELSE text

\* the enabled rule of user 1: keyword "hello", action mark_read;
\* user 2 has no rule
RuleMatches(u, item) == u = 1 /\ Lower(ItemTitle(item)) = "hello"

\* rules.py, apply_filters / _apply_actions: a matching rule sets the flags
\* its actions name on the state row, if the row exists
ApplyFiltersTo(S, u, eid, item) ==
  IF HasState(S, u, eid) /\ RuleMatches(u, item)
  THEN (S \ {StateOf(S, u, eid)})
         \cup {[StateOf(S, u, eid) EXCEPT !.is_read = TRUE]}
  ELSE S

Sessions == {"s1", "s2"}

IdleRun == [pc |-> "idle", feed |-> NoFeed, doc |-> <<>>, i |-> 0, added |-> 0,
            eid |-> 0, pendE |-> {}, pendS |-> {}, err |-> ""]

\* what session s reads: the committed rows and its own uncommitted writes
Visible(s) == entries \cup run[s].pendE
PendKeys(s) == {<<r.user_id, r.entry_id>> : r \in run[s].pendS}
VisibleStates(s) ==
  {r \in states : <<r.user_id, r.entry_id>> \notin PendKeys(s)}
    \cup run[s].pendS

IngestInit ==
  /\ entries = {}
  /\ states = {}
  /\ writeLock = "free"
  /\ run = [s \in Sessions |-> IdleRun]
  /\ runsStarted = 0

\* the loop of upsert_entries moves to the next item, or returns
Advance(r) ==
  IF r.i >= Len(r.doc)
  THEN [r EXCEPT !.pc = "upserted", !.eid = 0]
  ELSE [r EXCEPT !.pc = "lookup", !.i = r.i + 1, !.eid = 0]

\* process_feed starts in session s: fetch_feed raises, answers 304, or
\* returns a parsed document
ProcessFeedBegin(s, f, res) ==
  /\ run[s].pc = "idle"
  /\ runsStarted < MaxRuns
  /\ runsStarted' = runsStarted + 1
  /\ run' = [run EXCEPT ![s] =
       IF res.kind = "error"
       THEN [IdleRun EXCEPT !.pc = "failed", !.feed = f, !.err = "fetch"]
       ELSE IF res.kind = "304"
       THEN [IdleRun EXCEPT !.pc = "upserted", !.feed = f]
       ELSE Advance([IdleRun EXCEPT !.feed = f, !.doc = res.doc])]
  /\ UNCHANGED <<entries, states, writeLock>>

\* upsert_entries, lines 182-189
Lookup(s) ==
  /\ run[s].pc = "lookup"
  /\ LET r == run[s]
         h == EntryHash(r.doc[r.i])
     IN  run' = [run EXCEPT ![s] =
           IF Exists(Visible(s), r.feed, h) THEN Advance(r)
           ELSE [r EXCEPT !.pc = "insert"]]
  /\ UNCHANGED <<entries, states, writeLock, runsStarted>>

\* process_feed's handler without db.rollback()
FailedNoRollback(r, why) ==
  [r EXCEPT !.pc = "failed", !.eid = 0, !.added = 0, !.err = why]

\* process_feed, lines 283-308: rollback, then the failure is recorded
Failed(r, why) ==
  [r EXCEPT !.pc = "failed", !.pendE = {}, !.pendS = {}, !.eid = 0,
            !.added = 0, !.err = why]

\* upsert_entries, lines 203-204: db.add(entry); db.flush().  The INSERT
\* takes SQLite's write lock, which one connection holds at a time.
InsertEntry(s) ==
  /\ run[s].pc = "insert"
  /\ writeLock \in {"free", s}
  /\ LET r == run[s]
         h == EntryHash(r.doc[r.i])
         e == NewEntry(Visible(s), r.feed, r.doc[r.i])
     IN  IF UniqueViolation(Visible(s), r.feed, h)
         THEN /\ run' = [run EXCEPT ![s] = Failed(r, "IntegrityError")]
              /\ writeLock' = "free"
         ELSE /\ run' = [run EXCEPT ![s] =
                   [r EXCEPT !.pc = "state", !.eid = e.id,
                             !.pendE = r.pendE \cup {e}]]
              /\ writeLock' = s
  /\ UNCHANGED <<entries, states, runsStarted>>

\* upsert_entries, lines 205-216
InsertStateRow(s) ==
  /\ run[s].pc = "state"
  /\ LET r == run[s]
         u == OwnerOf(r.feed)
         S == InsertState(VisibleStates(s), u, r.eid)
     IN  run' = [run EXCEPT ![s] =
           [r EXCEPT !.pc = "filters",
                     !.pendS = r.pendS \cup (S \ VisibleStates(s))]]
  /\ UNCHANGED <<entries, states, writeLock, runsStarted>>

\* upsert_entries, lines 217-218
ApplyFilters(s) ==
  /\ run[s].pc = "filters"
  /\ LET r == run[s]
         u == OwnerOf(r.feed)
     IN  run' = [run EXCEPT ![s] =
           Advance([r EXCEPT !.added = r.added + 1,
                             !.pendS = ApplyFiltersTo(r.pendS, u, r.eid,
                                                      r.doc[r.i])])]
  /\ UNCHANGED <<entries, states, writeLock, runsStarted>>

\* an exception inside upsert_entries (sanitizer, image cache, full-text
\* extraction, "database is locked", a filter rule): process_feed catches it
RaiseInUpsert(s) ==
  /\ run[s].pc \in {"lookup", "insert", "state", "filters"}
  /\ run' = [run EXCEPT ![s] = Failed(run[s], "error")]
  /\ writeLock' = IF writeLock = s THEN "free" ELSE writeLock
  /\ UNCHANGED <<entries, states, runsStarted>>

\* process_feed returns and its caller commits (scheduler.py line 83,
\* main.py lines 217, 1017, 1044)
Commit(s) ==
  /\ run[s].pc \in {"upserted", "failed"}
  /\ writeLock \in {"free", s}
  /\ entries' = entries \cup run[s].pendE
  /\ states' = VisibleStates(s)
  /\ writeLock' = "free"
  /\ run' = [run EXCEPT ![s] = IdleRun]
  /\ UNCHANGED runsStarted

\* the commit raises ("database is locked"): the transaction is rolled back
CommitRaises(s) ==
  /\ run[s].pc \in {"upserted", "failed"}
  /\ writeLock' = IF writeLock = s THEN "free" ELSE writeLock
  /\ run' = [run EXCEPT ![s] = IdleRun]
  /\ UNCHANGED <<entries, states, runsStarted>>

\* upsert_entries run to the end on the rows E, without interleaving
RECURSIVE UpsertEntries(_, _, _)
UpsertEntries(E, f, doc) ==
  IF doc = <<>> THEN [entries |-> E, added |-> 0]
  ELSE IF Exists(E, f, EntryHash(Head(doc)))
       THEN UpsertEntries(E, f, Tail(doc))
       ELSE LET rest == UpsertEntries(E \cup {NewEntry(E, f, Head(doc))}, f,
                                      Tail(doc))
            IN  [entries |-> rest.entries, added |-> rest.added + 1]

SchedIdle == SchedInit

IngestNext ==
  \/ \E s \in Sessions, f \in FeedIds, res \in FetchResults :
       ProcessFeedBegin(s, f, res) /\ UNCHANGED notDb
  \/ \E s \in Sessions : Lookup(s) /\ UNCHANGED notDb
  \/ \E s \in Sessions : InsertEntry(s) /\ UNCHANGED notDb
  \/ \E s \in Sessions : InsertStateRow(s) /\ UNCHANGED notDb
  \/ \E s \in Sessions : ApplyFilters(s) /\ UNCHANGED notDb
  \/ \E s \in Sessions : RaiseInUpsert(s) /\ UNCHANGED notDb
  \/ \E s \in Sessions : Commit(s) /\ UNCHANGED notDb
  \/ \E s \in Sessions : CommitRaises(s) /\ UNCHANGED notDb

\* the store when no fetch has run
DbIdle == IngestInit

\* no process_feed run has touched a feed row
FeedIdle ==
  /\ fobj = <<>>
  /\ logs = {}

\* no tick has run
TickIdle ==
  /\ tickCalls = <<>>
  /\ tickMarked = {}

\* the selector when no scan has run
DueIdle ==
  /\ feeds = <<>>
  /\ sess = <<>>
  /\ due = <<>>
  /\ now = 0
  /\ scanned = FALSE

(***************************************************************************)
(* fetcher.py: the due-feed selector, with feed_settings.py                *)
(***************************************************************************)
\* feed_settings._clamp_int
_clamp_int(value, minimum, maximum) == Max(minimum, Min(value, maximum))

\* feed_settings.default_user_feed_defaults: default_fetch_interval_min
default_fetch_interval_min == 30

\* feed_settings.resolve_user_feed_defaults: default_fetch_interval_min of a
\* user whose settings_json holds `stored` ("unset": the key is missing)
resolve_user_feed_defaults(stored) ==
  _clamp_int(IF stored = "unset" THEN default_fetch_interval_min ELSE stored,
             1, 1440)

\* feed_settings.resolve_effective_feed_settings: fetch_interval_min
resolve_effective_feed_settings(feed, user_default) ==
  IF feed.use_global_fetch_interval THEN user_default
  ELSE _clamp_int(feed.fetch_interval_min, 1, 1440)

\* iter_due_feeds with the 4x step starting at 4 errors
BackoffFromFour(error_count) ==
  IF error_count >= 5 THEN 24
  ELSE IF error_count > 3 THEN 4
  ELSE 1

\* iter_due_feeds, lines 242-248
Backoff(error_count) ==
  IF error_count >= 5 THEN 24
  ELSE IF error_count >= 3 THEN 4
  ELSE IF error_count >= 1 THEN 1
  ELSE 1

\* iter_due_feeds without lines 228-230
NeverAutoDisable(feed) == FALSE

\* iter_due_feeds, line 228
AutoDisable(feed) == feed.error_count >= 10

\* iter_due_feeds, lines 231-250
IsDue(feed, user_default, now_ts) ==
  LET interval == resolve_effective_feed_settings(feed, user_default) * 60
  IN  now_ts >= feed.last_fetch_at + interval * Backoff(feed.error_count)

\* the inputs of the scan
ErrorCounts == {0, 2, 3, 4, 5, 9, 10, 12}
FetchTimes == {0, 60}
Intervals == {0, 1, 30}
Instants == {0, 59, 60, 120, 239, 240, 1439, 1440, 1799, 1800, 1860, 7199,
             7200, 43199, 43200, 43260}
\* users.settings_json of the one user: default_fetch_interval_min
UserDefaultStored == "unset"

FeedRows1 ==
  [id : {1}, user_id : {1}, disabled : BOOLEAN, error_count : ErrorCounts,
   last_fetch_at : FetchTimes, fetch_interval_min : Intervals,
   use_global_fetch_interval : BOOLEAN]
FeedRows2 ==
  [id : {2}, user_id : {1}, disabled : {FALSE}, error_count : {0, 4, 12},
   last_fetch_at : {0}, fetch_interval_min : {30},
   use_global_fetch_interval : {FALSE}]

DueInit ==
  /\ feeds \in {<<r1, r2>> : r1 \in FeedRows1, r2 \in FeedRows2}
  /\ sess = feeds
  /\ due = <<>>
  /\ now \in Instants
  /\ scanned = FALSE

\* the rows `feeds` of the query Feed.disabled.is_(False), scanned in order
RECURSIVE ScanDue(_, _, _)
ScanDue(rows, user_default, now_ts) ==
  IF rows = <<>> THEN <<>>
  ELSE LET feed == Head(rows)
           rest == ScanDue(Tail(rows), user_default, now_ts)
       IN  IF feed.disabled \/ AutoDisable(feed) THEN rest
           ELSE IF IsDue(feed, user_default, now_ts)
                THEN <<feed.id>> \o rest
                ELSE rest

\* list(iter_due_feeds(db)) in an open session: the feeds yielded, and the
\* loaded rows with the scan's side effect
IterDueFeeds ==
  /\ ~scanned
  /\ due' = ScanDue(sess, resolve_user_feed_defaults(UserDefaultStored), now)
  /\ sess' = [k \in 1..Len(sess) |->
                IF ~sess[k].disabled /\ AutoDisable(sess[k])
                THEN [sess[k] EXCEPT !.disabled = TRUE]
                ELSE sess[k]]
  /\ scanned' = TRUE
  /\ UNCHANGED <<feeds, now>>

\* _collect_due_feed_ids, lines 54-55: the with block closes the session;
\* nothing was committed
CloseSession ==
  /\ scanned
  /\ sess' = feeds
  /\ due' = <<>>
  /\ scanned' = FALSE
  /\ UNCHANGED <<feeds, now>>

\* time passes
ClockAdvance ==
  /\ ~scanned
  /\ \E t \in Instants : t > now /\ now' = t
  /\ UNCHANGED <<feeds, sess, due, scanned>>

DueNext ==
  \/ IterDueFeeds /\ UNCHANGED notDue
  \/ CloseSession /\ UNCHANGED notDue
  \/ ClockAdvance /\ UNCHANGED notDue

\* before the scan: the feeds table, an idle scheduler, an empty entry store
DueStart ==
  DueInit /\ SchedIdle /\ DbIdle /\ TickIdle /\ FeedIdle /\ NetIdle /\ UnitIdle

SpecDue == DueStart /\ [][DueNext]_vars

\* the steps of scheduler.py
SchedCoreNext ==
  \/ RunFetchTick /\ UNCHANGED notSched
  \/ \E t \in Callers, f \in FeedIds :
       EnqueueFeedUpdate(t, f) /\ UNCHANGED notSched
  \/ \E t \in Callers : GetFeedExecutor(t) /\ UNCHANGED notSched
  \/ \E t \in Callers : Submit(t) /\ UNCHANGED notSched
  \/ \E t \in Callers : EnqueueExcept(t) /\ UNCHANGED notSched
  \/ \E j \in JobIdx : JobStart(j) /\ UNCHANGED notSched
  \/ \E j \in JobIdx, raised \in BOOLEAN :
       JobFinish(j, raised) /\ UNCHANGED notSched
  \/ ShutdownTakeExecutor /\ UNCHANGED notSched
  \/ ShutdownClear /\ UNCHANGED notSched
  \/ ShutdownExecutor /\ UNCHANGED notSched

\* ... and of the manual refresh endpoints of main.py
SchedNext ==
  \/ SchedCoreNext
  \/ \E f \in FeedIds, b \in BOOLEAN :
       fetch_once(f, b) /\ UNCHANGED notSched
  \/ \E f \in FeedIds, b \in BOOLEAN :
       debug_refresh_feed(f, b) /\ UNCHANGED notSched
  \/ ManualRunFinish /\ UNCHANGED notSched

\* the process after import: nothing enqueued, an empty store, no scan
SchedStart ==
  SchedInit /\ DbIdle /\ DueIdle /\ TickIdle /\ FeedIdle /\ NetIdle /\ UnitIdle

SpecSched == SchedStart /\ [][SchedNext]_vars

\* A thread that entered enqueue_feed_update or shutdown_feed_workers runs on
\* (the locks are held for a few statements only), a pool worker that is free
\* takes the next queued item, and every running job returns or raises (every
\* outbound call carries a timeout; j is the job's place in `jobs`).  Nothing obliges a caller to start a
\* call.  The manual endpoints neither read nor write the in-flight set and
\* are left out.
SchedFairness ==
  /\ \A t \in Callers : WF_vars(GetFeedExecutor(t) /\ UNCHANGED notSched)
  /\ \A t \in Callers : WF_vars(Submit(t) /\ UNCHANGED notSched)
  /\ \A t \in Callers : WF_vars(EnqueueExcept(t) /\ UNCHANGED notSched)
  /\ \A j \in 1..MaxLive :
       WF_vars(JobStart(j) /\ UNCHANGED notSched)
  /\ \A j \in 1..MaxLive :
       WF_vars((\E raised \in BOOLEAN : JobFinish(j, raised))
               /\ UNCHANGED notSched)
  /\ WF_vars(ShutdownClear /\ UNCHANGED notSched)
  /\ WF_vars(ShutdownExecutor /\ UNCHANGED notSched)

SpecSchedFair == SchedStart /\ [][SchedCoreNext]_vars /\ SchedFairness

\* an empty store, an idle scheduler, no scan
IngestStart ==
  IngestInit /\ SchedIdle /\ DueIdle /\ TickIdle /\ FeedIdle /\ NetIdle /\ UnitIdle

SpecIngest == IngestStart /\ [][IngestNext]_vars

(***************************************************************************)
(* scheduler.py: the fetch tick as a whole, on the feeds table             *)
(***************************************************************************)
\* settings.scheduler_fetch_interval_min (RSS_SCHEDULER_FETCH_INTERVAL_MIN)
scheduler_fetch_interval_min == 1

\* start_scheduler: seconds between two runs of _run_fetch_tick
TickPeriod == Max(1, scheduler_fetch_interval_min) * 60

\* Under SpecTick time is kept relative to the running tick: `now` stays at
\* TickNow and the passing of time moves every last_fetch_at back.  A
\* last_fetch_at of 0 stands for any time TickNow or more seconds ago; the
\* feeds of TickRows are due after 60 seconds, so the scan cannot tell.
TickNow == 2 * TickPeriod

ShiftRows(rows, dt) ==
  [k \in 1..Len(rows) |->
     [rows[k] EXCEPT !.last_fetch_at = Max(0, rows[k].last_fetch_at - dt)]]

\* seconds after the tick at which a fetch may finish
FinishDelays == {0, 30}

TickRows ==
  { <<r1, r2, r3>> :
      r1 \in [id : {1}, user_id : {1}, disabled : BOOLEAN,
              error_count : {0, 12}, last_fetch_at : {0, TickNow},
              fetch_interval_min : {1}, use_global_fetch_interval : {FALSE}],
      r2 \in [id : {2}, user_id : {1}, disabled : {FALSE},
              error_count : {0, 12}, last_fetch_at : {0, TickNow},
              fetch_interval_min : {1}, use_global_fetch_interval : {FALSE}],
      r3 \in [id : {3}, user_id : {1}, disabled : {FALSE},
              error_count : {0}, last_fetch_at : {0, TickNow},
              fetch_interval_min : {1}, use_global_fetch_interval : {FALSE}] }

TickInit ==
  /\ feeds \in TickRows
  /\ sess = feeds
  /\ due = <<>>
  /\ now = TickNow
  /\ scanned = FALSE
  /\ TickIdle

\* _collect_due_feed_ids without the slice of line 63
CollectDueNoLimit(rows, now_ts) ==
  ScanDue(rows, resolve_user_feed_defaults(UserDefaultStored), now_ts)

\* _collect_due_feed_ids: the ids the scan yields, cut to max_feeds
_collect_due_feed_ids(rows, now_ts) ==
  Take(ScanDue(rows, resolve_user_feed_defaults(UserDefaultStored), now_ts),
       Max(1, scheduler_max_feeds_per_tick))

\* _run_fetch_tick, lines 140-144: enqueue_feed_update for each id in turn.
\* calls: the ids passed; a call for an id already in flight returns False.
RECURSIVE _run_fetch_tick(_, _, _)
_run_fetch_tick(ids, in_flight, js) ==
  IF ids = <<>>
  THEN [in_flight |-> in_flight, jobs |-> js, calls |-> <<>>,
        submitted |-> 0, skipped |-> 0]
  ELSE LET f == Head(ids)
           accepted == f \notin in_flight
           rest == _run_fetch_tick(
                     Tail(ids), in_flight \cup {f},
                     IF accepted
                     THEN Append(js, [feed |-> f, exec |-> "current",
                                      st |-> "queued"])
                     ELSE js)
       IN  [rest EXCEPT !.calls = <<f>> \o rest.calls,
                        !.submitted = rest.submitted
                                        + (IF accepted THEN 1 ELSE 0),
                        !.skipped = rest.skipped
                                      + (IF accepted THEN 0 ELSE 1)]

\* ids of the rows a scan marks disabled
MarkedBy(rows) ==
  {rows[k].id : k \in {i \in 1..Len(rows) :
                         ~rows[i].disabled /\ AutoDisable(rows[i])}}

\* The interval trigger runs _run_fetch_tick one period after the previous
\* run.  The session of _collect_due_feed_ids is closed without a commit, so
\* the table keeps the rows as they were.  (rows, ids, res: the locals of
\* the tick, each computed once.)
FetchTick ==
  \E rows \in {ShiftRows(feeds, TickPeriod)} :
  \E ids \in {_collect_due_feed_ids(rows, now)} :
  \E res \in {_run_fetch_tick(ids, feed_in_flight, jobs)} :
      /\ due' = ScanDue(rows, resolve_user_feed_defaults(UserDefaultStored),
                        now)
      /\ tickMarked' = MarkedBy(rows)
      /\ tickCalls' = res.calls
      /\ feed_in_flight' = res.in_flight
      /\ jobs' = res.jobs
      /\ feed_executor' = "current"
      /\ feeds' = rows
      /\ sess' = rows
      /\ UNCHANGED <<pc, callFeed, callExec, tickDue, sdpc, sdExec, manual,
                     now, scanned, dbVars, feedVars, netVars, unitVars>>

\* _process_feed_job for a tick's job, when the fetch succeeds: the row is
\* looked up with disabled = False; process_feed sets last_fetch_at and
\* resets error_count, and the job commits
Fetched(rows, f, at) ==
  [k \in 1..Len(rows) |->
     IF rows[k].id = f /\ ~rows[k].disabled
     THEN [rows[k] EXCEPT !.last_fetch_at = at, !.error_count = 0]
     ELSE rows[k]]

TickJobFinish(j, delay) ==
  /\ JobFinish(j, FALSE)
  /\ feeds' = Fetched(feeds, jobs[j].feed, now + delay)
  /\ sess' = feeds'
  /\ UNCHANGED <<due, now, scanned, tickVars, dbVars, feedVars, netVars, unitVars>>

TickNext ==
  \/ FetchTick
  \/ \E j \in JobIdx : JobStart(j) /\ UNCHANGED notSched
  \/ \E j \in JobIdx, delay \in FinishDelays : TickJobFinish(j, delay)

\* the feeds table, no tick yet, an idle pool, an empty entry store
TickStart == TickInit /\ SchedIdle /\ DbIdle /\ FeedIdle /\ NetIdle /\ UnitIdle

SpecTick == TickStart /\ [][TickNext]_vars

\* The trigger keeps firing, a free worker takes the next queued job and a
\* running job finishes (k is the job's place in `jobs`; a feed has at most
\* one job).
TickFairness ==
  /\ WF_vars(FetchTick)
  /\ \A k \in 1..3 : WF_vars(JobStart(k) /\ UNCHANGED notSched)
  /\ \A k \in 1..3 : WF_vars(\E delay \in FinishDelays : TickJobFinish(k, delay))

SpecTickFair == TickStart /\ [][TickNext]_vars /\ TickFairness

(***************************************************************************)
(* fetcher.py: process_feed on the feed row and the fetch log              *)
(***************************************************************************)
\* int(time.time()) during the runs of SpecFeed
FeedNow == 100

\* rows of table feeds; "" is NULL
FeedRunRows ==
  { <<r1, r2>> :
      r1 \in [id : {1}, user_id : {1}, disabled : BOOLEAN,
              error_count : {0, 3}, last_fetch_at : {0},
              last_status : {0, 200}, etag : {"e0"}, last_modified : {"m0"},
              title : {"Old"}, site_url : {"old"},
              fetch_interval_min : {1}, use_global_fetch_interval : {FALSE}],
      r2 \in [id : {2}, user_id : {2}, disabled : {FALSE},
              error_count : {12}, last_fetch_at : {0},
              last_status : {0}, etag : {""}, last_modified : {""},
              title : {"Old"}, site_url : {""},
              fetch_interval_min : {1}, use_global_fetch_interval : {FALSE}] }

\* what fetch_feed meets: an exception (after its retries), a 304, or a
\* 200 response with a parsed document, response headers and feed metadata
FeedResponses ==
  { [kind |-> "error", doc |-> <<>>, status |-> 0, etag |-> "",
     last_modified |-> "", title |-> "", link |-> ""],
    [kind |-> "304", doc |-> <<>>, status |-> 304, etag |-> "",
     last_modified |-> "", title |-> "", link |-> ""] }
  \cup { [kind |-> "ok", doc |-> <<ItemA>>, status |-> 200, etag |-> "e1",
          last_modified |-> "", title |-> "New", link |-> "new"],
         [kind |-> "ok", doc |-> <<ItemB, ItemC>>, status |-> 200,
          etag |-> "", last_modified |-> "m1", title |-> "", link |-> ""] }

FeedRow(rows, id) == rows[CHOOSE k \in 1..Len(rows) : rows[k].id = id]

\* no run in the session
NoObj == [loaded |-> <<>>, obj |-> <<>>, log |-> <<>>]

\* fetch_feed that sets disabled = False on a response
FetchFeedReenables(obj, res) ==
  [obj EXCEPT !.last_status = res.status, !.disabled = FALSE]

\* fetch_feed, lines 115-126, on the Feed object: a 304 sets last_status
\* only; another response also stores its ETag and Last-Modified headers
fetch_feed(obj, res) ==
  IF res.kind = "304"
  THEN [obj EXCEPT !.last_status = 304]
  ELSE [obj EXCEPT !.last_status = res.status, !.etag = res.etag,
                   !.last_modified = res.last_modified]

\* process_feed, lines 257-260: the parsed document's feed title and link
FeedInfo(obj, res) ==
  IF res.kind = "304" THEN obj
  ELSE [obj EXCEPT !.title = Or(res.title, obj.title),
                   !.site_url = Or(res.link, obj.site_url)]

\* process_feed resetting error_count for status 200 only
ProcessFeedSuccess200(obj, at) ==
  [obj EXCEPT !.last_fetch_at = at,
              !.error_count = IF obj.last_status = 200 THEN 0 ELSE @]

\* process_feed, lines 263-265
ProcessFeedSuccess(obj, at) ==
  [obj EXCEPT !.last_fetch_at = at,
              !.error_count = IF obj.last_status \in {200, 304} THEN 0 ELSE @]

\* process_feed, lines 274-281: FetchLog of a run that returned normally
SuccessLog(obj) ==
  [feed_id |-> obj.id, status |-> obj.last_status,
   fetched_at |-> obj.last_fetch_at, error_message |-> "None"]

\* process_feed's handler leaving error_count alone
ProcessFeedExceptNoCount(row, at) == [row EXCEPT !.last_fetch_at = at]

\* process_feed, lines 283-291: after the rollback the row is read again
\* and counted up
ProcessFeedExcept(row, at) ==
  [row EXCEPT !.error_count = row.error_count + 1, !.last_fetch_at = at]

\* process_feed, lines 300-307: FetchLog of a failed run; format_fetch_error
\* never returns an empty message
FailureLog(obj) ==
  [feed_id |-> obj.id, status |-> obj.last_status,
   fetched_at |-> obj.last_fetch_at, error_message |-> "error"]

\* the session's Feed object after the handler of process_feed ran
Excepted(row, at) ==
  [loaded |-> row, obj |-> ProcessFeedExcept(row, at),
   log |-> FailureLog(ProcessFeedExcept(row, at))]

\* the session's Feed object when process_feed returns
Returned(fo, failed, at) ==
  IF failed THEN fo
  ELSE [fo EXCEPT !.obj = ProcessFeedSuccess(fo.obj, at),
                  !.log = SuccessLog(ProcessFeedSuccess(fo.obj, at))]

\* the flush of a Feed object: UPDATE of the columns whose value changed
WriteBack(rows, fo) ==
  [k \in 1..Len(rows) |->
     IF rows[k].id = fo.obj.id
     THEN [c \in DOMAIN rows[k] |->
             IF fo.obj[c] # fo.loaded[c] THEN fo.obj[c] ELSE rows[k][c]]
     ELSE rows[k]]

FeedInit ==
  /\ feeds \in FeedRunRows
  /\ sess = feeds
  /\ due = <<>>
  /\ now = FeedNow
  /\ scanned = FALSE
  /\ fobj = [s \in Sessions |-> NoObj]
  /\ logs = {}

\* process_feed starts in session s.  A worker job looks the feed up with
\* disabled = False unless include_disabled (_process_feed_job, lines
\* 73-80); main.py's refresh looks it up by owner only.
FeedRunBegin(s, f, res, include_disabled) ==
  /\ include_disabled \/ ~FeedRow(feeds, f).disabled
  /\ ProcessFeedBegin(s, f, res)
  /\ fobj' = [fobj EXCEPT ![s] =
       IF res.kind = "error"
       THEN Excepted(FeedRow(feeds, f), now)
       ELSE [loaded |-> FeedRow(feeds, f),
             obj |-> FeedInfo(fetch_feed(FeedRow(feeds, f), res), res),
             log |-> <<>>]]
  /\ UNCHANGED <<feeds, sess, due, now, scanned, logs>>

\* a step of upsert_entries in session s; when it raises, the handler of
\* process_feed runs
FeedRunStep(s, step) ==
  /\ step
  /\ fobj' = [fobj EXCEPT ![s] =
       IF run[s].pc # "failed" /\ run'[s].pc = "failed"
       THEN Excepted(FeedRow(feeds, run[s].feed), now)
       ELSE fobj[s]]
  /\ UNCHANGED <<feeds, sess, due, now, scanned, logs>>

\* process_feed returned and the caller's db.commit() succeeds
FeedCommit(s) ==
  /\ Commit(s)
  /\ LET fo == Returned(fobj[s], run[s].pc = "failed", now)
     IN  /\ feeds' = WriteBack(feeds, fo)
         /\ logs' = logs \cup {[id |-> Cardinality(logs) + 1, row |-> fo.log]}
  /\ sess' = feeds'
  /\ fobj' = [fobj EXCEPT ![s] = NoObj]
  /\ UNCHANGED <<due, now, scanned>>

\* the caller's db.commit() raises: nothing of the run is stored
FeedCommitRaises(s) ==
  /\ CommitRaises(s)
  /\ fobj' = [fobj EXCEPT ![s] = NoObj]
  /\ UNCHANGED <<feeds, sess, due, now, scanned, logs>>

\* cleanup_old_entries and the commit of _run_cleanup_tick, for a feed all
\* of whose entries and fetch logs are older than its cutoff (publish times
\* are not part of the model): they are deleted with the owner's state rows.
\* The feeds table is only read.
CleanupSweep(f) ==
  /\ writeLock = "free"
  /\ \A s \in Sessions : run[s].pc = "idle"
  /\ \E e \in entries : e.feed_id = f
  /\ entries' = {e \in entries : e.feed_id # f}
  /\ states' = {r \in states :
                  ~\E e \in entries : e.feed_id = f /\ e.id = r.entry_id
                                      /\ r.user_id = FeedRow(feeds, f).user_id}
  /\ logs' = {l \in logs : l.row.feed_id # f}
  /\ UNCHANGED <<writeLock, run, runsStarted, dueVars, fobj>>

\* _collect_due_feed_ids as a whole: the scan marks and skips the feeds with
\* 10 errors or more, and its session is closed without a commit
CollectDue ==
  /\ ~scanned
  /\ due' = _collect_due_feed_ids(feeds, now)
  /\ tickMarked' = MarkedBy(feeds)
  /\ UNCHANGED <<feeds, sess, now, scanned>>

FeedNext ==
  \/ \E s \in Sessions, f \in FeedIds, res \in FeedResponses,
        include_disabled \in BOOLEAN :
       FeedRunBegin(s, f, res, include_disabled)
         /\ UNCHANGED <<schedVars, tickVars, netVars, unitVars>>
  \/ \E s \in Sessions :
       FeedRunStep(s, Lookup(s)) /\ UNCHANGED <<schedVars, tickVars, netVars, unitVars>>
  \/ \E s \in Sessions :
       FeedRunStep(s, InsertEntry(s)) /\ UNCHANGED <<schedVars, tickVars, netVars, unitVars>>
  \/ \E s \in Sessions :
       FeedRunStep(s, InsertStateRow(s)) /\ UNCHANGED <<schedVars, tickVars, netVars, unitVars>>
  \/ \E s \in Sessions :
       FeedRunStep(s, ApplyFilters(s)) /\ UNCHANGED <<schedVars, tickVars, netVars, unitVars>>
  \/ \E s \in Sessions :
       FeedRunStep(s, RaiseInUpsert(s)) /\ UNCHANGED <<schedVars, tickVars, netVars, unitVars>>
  \/ \E s \in Sessions : FeedCommit(s) /\ UNCHANGED <<schedVars, tickVars, netVars, unitVars>>
  \/ \E s \in Sessions : FeedCommitRaises(s) /\ UNCHANGED <<schedVars, tickVars, netVars, unitVars>>
  \/ \E f \in FeedIds : CleanupSweep(f) /\ UNCHANGED <<schedVars, tickVars, netVars, unitVars>>
  \/ CollectDue
       /\ UNCHANGED <<schedVars, dbVars, tickCalls, feedVars, netVars, unitVars>>

\* the feeds table, an empty entry store and fetch log, an idle scheduler
FeedStart == FeedInit /\ IngestInit /\ SchedIdle /\ TickIdle /\ NetIdle /\ UnitIdle

SpecFeed == FeedStart /\ [][FeedNext]_vars

(***************************************************************************)
(* network_safety.py: the outbound safety gate, the requests made behind   *)
(* it and the limited readers                                              *)
(***************************************************************************)

\* A URL text is modelled by the parts urlparse splits it into, plus
\* `pad`, TRUE when the text carries leading or trailing whitespace.
Schemes == {"http", "https", "HTTP", "ftp", ""}
Addresses ==
  {"1.1.1.1", "10.0.0.1", "127.0.0.1", "169.254.169.254", "224.0.0.1",
   "240.0.0.1", "0.0.0.0", "::1"}
HostNames ==
  {"pub.example", "mixed.example", "mcast.example", "nx.example",
   "norec.example"}
Hosts == {""} \cup Addresses \cup HostNames
Urls ==
  [pad : BOOLEAN, scheme : Schemes, hostname : Hosts,
   username : {"", "u"}, password : {"", "p"}]

Url(scheme, hostname) ==
  [pad |-> FALSE, scheme |-> scheme, hostname |-> hostname,
   username |-> "", password |-> ""]

\* str.strip()
Strip(u) == [u EXCEPT !.pad = FALSE]
\* `not value`: the stripped text is empty
IsEmpty(u) ==
  u.scheme = "" /\ u.hostname = "" /\ u.username = "" /\ u.password = ""
\* str.lower() on the scheme
SchemeLower(x) == IF x = "HTTP" THEN "http" ELSE x

\* the properties ipaddress reports for each modelled address
Flags(a) ==
  CASE a = "1.1.1.1" -> {}
    [] a = "10.0.0.1" -> {"is_private"}
    [] a = "127.0.0.1" -> {"is_private", "is_loopback"}
    [] a = "169.254.169.254" -> {"is_private", "is_link_local"}
    [] a = "224.0.0.1" -> {"is_multicast"}
    [] a = "240.0.0.1" -> {"is_private", "is_reserved"}
    [] a = "0.0.0.0" -> {"is_private", "is_unspecified"}
    [] a = "::1" -> {"is_private", "is_loopback"}

\* _is_blocked_ip without the multicast test
IsBlockedNoMulticast(a) ==
  \/ "is_private" \in Flags(a)
  \/ "is_loopback" \in Flags(a)
  \/ "is_link_local" \in Flags(a)
  \/ "is_reserved" \in Flags(a)
  \/ "is_unspecified" \in Flags(a)

_is_blocked_ip(a) ==
  \/ "is_private" \in Flags(a)
  \/ "is_loopback" \in Flags(a)
  \/ "is_link_local" \in Flags(a)
  \/ "is_multicast" \in Flags(a)
  \/ "is_reserved" \in Flags(a)
  \/ "is_unspecified" \in Flags(a)

\* socket.getaddrinfo: the answer of the resolver for each modelled name;
\* nx.example does not exist (gaierror), norec.example has records none of
\* which carries a usable address
getaddrinfo(hostname) ==
  CASE hostname = "pub.example" -> [raises |-> FALSE, ips |-> {"1.1.1.1"}]
    [] hostname = "mixed.example" ->
         [raises |-> FALSE, ips |-> {"1.1.1.1", "10.0.0.1"}]
    [] hostname = "mcast.example" ->
         [raises |-> FALSE, ips |-> {"224.0.0.1"}]
    [] hostname = "norec.example" -> [raises |-> FALSE, ips |-> {}]
    [] OTHER -> [raises |-> TRUE, ips |-> {}]

\* _resolve_host_ips: the resolver's error escapes; an empty result is an
\* UnsafeOutboundUrlError
_resolve_host_ips(hostname) ==
  LET records == getaddrinfo(hostname)
  IN  IF records.raises THEN [kind |-> "oserror", ips |-> {}]
      ELSE IF records.ips = {} THEN [kind |-> "unsafe", ips |-> {}]
      ELSE [kind |-> "ok", ips |-> records.ips]

Accept(value) == [kind |-> "ok", value |-> value, why |-> "none"]
Reject(value, kind, why) == [kind |-> kind, value |-> value, why |-> why]

\* ensure_safe_outbound_url(raw_url) under settings.network_block_private
ensure_safe_outbound_url(raw_url, block_private) ==
  LET value == Strip(raw_url)
  IN  IF IsEmpty(value) THEN Reject(value, "unsafe", "empty")
      ELSE IF SchemeLower(value.scheme) \notin {"http", "https"}
        THEN Reject(value, "unsafe", "scheme")
      ELSE IF value.hostname = "" THEN Reject(value, "unsafe", "host")
      ELSE IF value.username # "" \/ value.password # ""
        THEN Reject(value, "unsafe", "credentials")
      ELSE IF ~block_private THEN Accept(value)
      ELSE IF value.hostname \in Addresses
        THEN IF _is_blocked_ip(value.hostname)
             THEN Reject(value, "unsafe", "blocked")
             ELSE Accept(value)
      ELSE LET res == _resolve_host_ips(value.hostname)
           IN  IF res.kind # "ok" THEN Reject(value, res.kind, "unresolved")
               ELSE IF \E a \in res.ips : _is_blocked_ip(a)
                 THEN Reject(value, "unsafe", "blocked")
               ELSE Accept(value)

\* ---- the limited readers.  A chunk is a sequence of bytes; a reader
\* returns what it did: the bytes it returned or the error it raised, and
\* how many chunks it took from the iterator.
MaxChunks == 3     \* chunks in one response body
Chunks == {<<>>, <<1>>, <<2, 3>>}
Limits == 0..3
Bodies == UNION {[1..n -> Chunks] : n \in 0..MaxChunks}

RECURSIVE ReadAllThenCheck(_, _, _, _)
\* a reader that checks the size once, after the last chunk
ReadAllThenCheck(chunks, limit_bytes, data, k) ==
  IF k > Len(chunks)
  THEN IF Len(data) > limit_bytes
       THEN [kind |-> "too_large", data |-> <<>>, consumed |-> Len(chunks)]
       ELSE [kind |-> "ok", data |-> data, consumed |-> Len(chunks)]
  ELSE ReadAllThenCheck(chunks, limit_bytes, data \o chunks[k], k + 1)

RECURSIVE ReadLimited(_, _, _, _)
\* the loop of _read_limited_chunks from chunk k on, data being the bytes
\* collected so far
ReadLimited(chunks, limit_bytes, data, k) ==
  IF k > Len(chunks)
  THEN [kind |-> "ok", data |-> data, consumed |-> Len(chunks)]
  ELSE IF chunks[k] = <<>>
    THEN ReadLimited(chunks, limit_bytes, data, k + 1)
  ELSE IF Len(data \o chunks[k]) > limit_bytes
    THEN [kind |-> "too_large", data |-> <<>>, consumed |-> k]
  ELSE ReadLimited(chunks, limit_bytes, data \o chunks[k], k + 1)

ReadChunksAtEnd(chunks, limit_bytes) ==
  ReadAllThenCheck(chunks, limit_bytes, <<>>, 1)

_read_limited_chunks(chunks, limit_bytes) ==
  ReadLimited(chunks, limit_bytes, <<>>, 1)

RECURSIVE ReadLimitedAsync(_, _, _, _)
\* the loop of _read_limited_async_chunks
ReadLimitedAsync(chunks, limit_bytes, data, k) ==
  IF k > Len(chunks)
  THEN [kind |-> "ok", data |-> data, consumed |-> Len(chunks)]
  ELSE IF chunks[k] = <<>>
    THEN ReadLimitedAsync(chunks, limit_bytes, data, k + 1)
  ELSE IF Len(data \o chunks[k]) > limit_bytes
    THEN [kind |-> "too_large", data |-> <<>>, consumed |-> k]
  ELSE ReadLimitedAsync(chunks, limit_bytes, data \o chunks[k], k + 1)

_read_limited_async_chunks(chunks, limit_bytes) ==
  ReadLimitedAsync(chunks, limit_bytes, <<>>, 1)

\* ---- the calls that put requests on the wire
\* every caller goes through one of the three helpers
Helper(kind) ==
  CASE kind = "feed" -> "fetch_text_response"
    [] kind = "fulltext" -> "fetch_text_response"
    [] kind = "favicon" -> "fetch_bytes_response"
    [] kind = "image" -> "fetch_bytes_response"
    [] kind = "probe" -> "fetch_text_response_async"
CallKinds == {"feed", "fulltext", "favicon", "image", "probe"}

\* the URLs callers pass and the Location targets servers answer with
CallUrls ==
  {Url("https", "1.1.1.1"), Url("http", "127.0.0.1"),
   Url("ftp", "1.1.1.1"), Url("http", "pub.example"),
   Url("http", "mixed.example"), Url("http", "nx.example")}
RedirectTargets ==
  {Url("https", "1.1.1.1"), Url("http", "169.254.169.254"),
   Url("http", "mixed.example")}
MaxHops == 2       \* redirects followed in one call
CallBodies == {<<<<1>>>>, <<<<1>>, <<2, 3>>, <<1>>>>}
\* the byte counts are scaled: 2 stands for the configured ceiling and 1
\* for the floor of 1024 the helpers apply
network_max_response_bytes == 2
MinResponseBytes == 1
max_bytes(limit_bytes) ==
  Max(MinResponseBytes,
      IF limit_bytes # 0 THEN limit_bytes ELSE network_max_response_bytes)

NetInit ==
  /\ block \in BOOLEAN
  /\ gate = <<>>
  /\ call = <<>>
  /\ checked = {}
  /\ sent = <<>>
  /\ rdr = <<>>

\* ensure_safe_outbound_url applied to any URL
GateCheck(u) ==
  /\ gate' = [url |-> u, out |-> ensure_safe_outbound_url(u, block)]
  /\ call' = <<>>
  /\ checked' = {}
  /\ sent' = <<>>
  /\ rdr' = <<>>
  /\ UNCHANGED block

\* both readers applied to any body under any limit
ReadChunks(chunks, limit_bytes) ==
  /\ rdr' = [chunks |-> chunks, limit |-> limit_bytes,
             sync |-> _read_limited_chunks(chunks, limit_bytes),
             async |-> _read_limited_async_chunks(chunks, limit_bytes)]
  /\ gate' = <<>>
  /\ call' = <<>>
  /\ checked' = {}
  /\ sent' = <<>>
  /\ UNCHANGED block

\* a helper is entered: the gate runs first; only when it returns is the
\* GET of the returned URL started with client.stream
NetCall(kind, u) ==
  LET out == ensure_safe_outbound_url(u, block)
  IN  /\ call' = [kind |-> kind, helper |-> Helper(kind), url |-> u,
                  pc |-> IF out.kind = "ok" THEN "requested" ELSE "rejected",
                  hops |-> 0, result |-> out.kind]
      /\ checked' = IF out.kind = "ok" THEN {out.value} ELSE {}
      /\ sent' = IF out.kind = "ok" THEN <<out.value>> ELSE <<>>
      /\ gate' = <<>>
      /\ rdr' = <<>>
      /\ UNCHANGED block

\* the server answers with a redirect; every client is built with
\* follow_redirects=True, so it requests the Location target itself
FollowRedirect(target) ==
  /\ call # <<>>
  /\ call.pc = "requested"
  /\ call.hops < MaxHops
  /\ call' = [call EXCEPT !.hops = @ + 1]
  /\ sent' = Append(sent, target)
  /\ UNCHANGED <<block, gate, checked, rdr>>

\* the server answers with a final status: raise_for_status raises unless
\* it is a 2xx, otherwise the body is read by the helper's limited reader
Respond(status, chunks) ==
  /\ call # <<>>
  /\ call.pc = "requested"
  /\ LET read == IF call.helper = "fetch_text_response_async"
                 THEN _read_limited_async_chunks(chunks, max_bytes(0))
                 ELSE _read_limited_chunks(chunks, max_bytes(0))
     IN  call' = [call EXCEPT
                    !.pc = "returned",
                    !.result = IF status \notin 200..299 THEN "http_error"
                               ELSE read.kind]
  /\ UNCHANGED <<block, gate, checked, sent, rdr>>

NetNext ==
  \/ \E u \in Urls : GateCheck(u) /\ UNCHANGED notNet
  \/ \E chunks \in Bodies, limit_bytes \in Limits :
       ReadChunks(chunks, limit_bytes) /\ UNCHANGED notNet
  \/ \E kind \in CallKinds, u \in CallUrls :
       NetCall(kind, u) /\ UNCHANGED notNet
  \/ \E target \in RedirectTargets :
       FollowRedirect(target) /\ UNCHANGED notNet
  \/ \E status \in {200, 304, 404}, chunks \in CallBodies :
       Respond(status, chunks) /\ UNCHANGED notNet

\* either setting of the blocking switch; nothing else has run
NetStart ==
  NetInit /\ SchedIdle /\ DbIdle /\ DueIdle /\ TickIdle /\ FeedIdle /\ UnitIdle

SpecNet == NetStart /\ [][NetNext]_vars

(***************************************************************************)
(* fetcher.py: fetch_feed under @retry, and what process_feed records      *)
(***************************************************************************)
\* @retry(stop=stop_after_attempt(3), ...): no retry= argument is given, so
\* every exception of an attempt is retried, and no reraise=True, so the
\* exhausted budget raises RetryError around the last exception
stop_after_attempt == 3

\* the exception classes an attempt may raise
TimeoutClasses == {"ConnectTimeout", "ReadTimeout"}
AttemptExceptions ==
  TimeoutClasses \cup {"ConnectError", "RemoteProtocolError",
                       "HTTPStatusError", "UnsafeOutboundUrlError"}
\* what one attempt of fetch_feed meets: a 200 response, another 2xx
\* response (raise_for_status lets every 2xx pass), a 304 (caught at lines
\* 115-118 or seen at 121-122) or an exception
AttemptOutcomes == {"ok", "ok_other", "not_modified"} \cup AttemptExceptions

\* fetch_feed, lines 117 and 120: the last_status a returning attempt sets
\* (203 stands for the 2xx codes other than 200)
StatusOf(outcome) ==
  CASE outcome = "ok" -> 200
    [] outcome = "ok_other" -> 203
    [] outcome = "not_modified" -> 304

NoExc == [cls |-> "none", inner |-> "none"]
RetryError(last) == [cls |-> "RetryError", inner |-> last]

\* format_fetch_error that classifies the exception it is given as it is
FormatFetchErrorNoUnwrap(exc) ==
  LET raw == exc.cls
  IN  IF raw \in TimeoutClasses THEN "timeout"
      ELSE IF raw = "ConnectError" THEN "connect"
      ELSE IF raw = "RemoteProtocolError" THEN "protocol"
      ELSE IF raw = "HTTPStatusError" THEN "http_status"
      ELSE IF raw = "UnsafeOutboundUrlError" THEN "value_error"
      ELSE raw

\* format_fetch_error: a RetryError is replaced by the exception of its
\* last attempt; the isinstance tests follow in the order of the source
\* (UnsafeOutboundUrlError is a ValueError); otherwise the class name
format_fetch_error(exc) ==
  LET raw == IF exc.cls = "RetryError" THEN exc.inner ELSE exc.cls
  IN  IF raw \in TimeoutClasses THEN "timeout"
      ELSE IF raw = "ConnectError" THEN "connect"
      ELSE IF raw = "RemoteProtocolError" THEN "protocol"
      ELSE IF raw = "HTTPStatusError" THEN "http_status"
      ELSE IF raw = "UnsafeOutboundUrlError" THEN "value_error"
      ELSE raw

\* the retry loop after an attempt that raised: stop and raise RetryError
\* when the budget is used up, otherwise sleep and try again
AfterFailure(r, cls) ==
  IF r.attempts + 1 >= stop_after_attempt
  THEN [r EXCEPT !.attempts = @ + 1, !.last = cls, !.pc = "raised",
                 !.exc = RetryError(cls)]
  ELSE [r EXCEPT !.attempts = @ + 1, !.last = cls, !.pc = "attempt"]

RetryInit ==
  /\ feeds \in FeedRunRows
  /\ sess = feeds
  /\ due = <<>>
  /\ now = FeedNow
  /\ scanned = FALSE
  /\ fobj = <<>>
  /\ logs = {}
  /\ rt = <<>>
  /\ flt = <<>>
  /\ swp = <<>>

\* process_feed calls fetch_feed for feed f
RetryBegin(f) ==
  /\ IF rt = <<>> THEN TRUE ELSE rt.pc = "recorded" /\ rt.run < MaxRuns
  /\ rt' = [pc |-> "attempt", feed |-> f, attempts |-> 0, last |-> "none",
            exc |-> NoExc, run |-> IF rt = <<>> THEN 1 ELSE rt.run + 1,
            before |-> FeedRow(feeds, f).error_count]
  /\ UNCHANGED <<feeds, sess, logs>>

\* one attempt of fetch_feed
Attempt(outcome) ==
  /\ rt # <<>>
  /\ rt.pc = "attempt"
  /\ rt' = IF outcome \in AttemptExceptions
           THEN AfterFailure(rt, outcome)
           ELSE [rt EXCEPT !.attempts = @ + 1, !.last = outcome,
                           !.pc = "returned"]
  /\ UNCHANGED <<feeds, sess, logs>>

\* fetch_feed raised: the handler of process_feed counts the failure and
\* logs the classified message, and the caller commits
RetryRecordFailure ==
  /\ rt # <<>>
  /\ rt.pc = "raised"
  /\ LET row == ProcessFeedExcept(FeedRow(feeds, rt.feed), now)
     IN  /\ feeds' = [k \in 1..Len(feeds) |->
                        IF feeds[k].id = rt.feed THEN row ELSE feeds[k]]
         /\ logs' = logs \cup
              {[id |-> rt.run,
                row |-> [FailureLog(row) EXCEPT
                           !.error_message = format_fetch_error(rt.exc)]]}
  /\ sess' = feeds'
  /\ rt' = [rt EXCEPT !.pc = "recorded"]

\* fetch_feed returned: process_feed finishes the run and the caller commits
RetryRecordSuccess ==
  /\ rt # <<>>
  /\ rt.pc = "returned"
  /\ LET status == StatusOf(rt.last)
         row == ProcessFeedSuccess(
                  [FeedRow(feeds, rt.feed) EXCEPT !.last_status = status], now)
     IN  /\ feeds' = [k \in 1..Len(feeds) |->
                        IF feeds[k].id = rt.feed THEN row ELSE feeds[k]]
         /\ logs' = logs \cup {[id |-> rt.run, row |-> SuccessLog(row)]}
  /\ sess' = feeds'
  /\ rt' = [rt EXCEPT !.pc = "recorded"]

notRetry ==
  <<schedVars, dbVars, tickVars, netVars, due, now, scanned, fobj, flt, swp>>

RetryNext ==
  \/ \E f \in FeedIds : RetryBegin(f) /\ UNCHANGED notRetry
  \/ \E outcome \in AttemptOutcomes : Attempt(outcome) /\ UNCHANGED notRetry
  \/ RetryRecordFailure /\ UNCHANGED notRetry
  \/ RetryRecordSuccess /\ UNCHANGED notRetry

\* the feeds table, no run yet
RetryStart ==
  RetryInit /\ SchedIdle /\ DbIdle /\ TickIdle /\ NetIdle

SpecRetry == RetryStart /\ [][RetryNext]_vars

(***************************************************************************)
(* rules.py: _match, _apply_actions, apply_filters                         *)
(***************************************************************************)
\* Texts are sequences of characters; <<>> is None or the empty string.
LowerChar(c) == IF c = "H" THEN "h" ELSE IF c = "I" THEN "i" ELSE c
\* str.lower()
LowerText(t) == [n \in 1..Len(t) |-> LowerChar(t[n])]
\* k in text
IsSubstring(k, text) ==
  \E n \in 0..(Len(text) - Len(k)) : SubSeq(text, n + 1, n + Len(k)) = k

KwHi == <<"h", "i">>
KwUpper == <<"H", "I">>
KwAB == <<"a", "b">>
KwASpaceB == <<"a", " ", "b">>
KwX == <<"x">>

\* the value json.loads gives for a match_json text: `kind` is "invalid"
\* when the text does not parse, "object" for a JSON object, "other" for
\* null, a list, a number or a string; `keywords` is the list under the key
\* "keywords", has_keywords telling whether the key is there
MatchObject(has, kws) ==
  [kind |-> "object", has_keywords |-> has, keywords |-> kws]
MatchJsons ==
  { [kind |-> "invalid", has_keywords |-> FALSE, keywords |-> <<>>],
    [kind |-> "other", has_keywords |-> FALSE, keywords |-> <<>>],
    MatchObject(FALSE, <<>>), MatchObject(TRUE, <<>>),
    MatchObject(TRUE, <<KwHi>>), MatchObject(TRUE, <<KwX, KwUpper>>),
    MatchObject(TRUE, <<KwAB>>), MatchObject(TRUE, <<KwASpaceB>>),
    MatchObject(TRUE, <<KwX>>) }

\* the value json.loads gives for an actions_json text: for an object,
\* `on` holds the keys whose value is true
ActionObject(on) == [kind |-> "object", on |-> on]
ActionJsons ==
  { [kind |-> "invalid", on |-> {}], [kind |-> "other", on |-> {}],
    ActionObject({}), ActionObject({"mark_read"}),
    ActionObject({"star", "later"}) }

\* rows of table filters: the second row has the lower priority value
RulesA ==
  [id : {1}, user_id : {1}, enabled : BOOLEAN, priority : {1},
   match_json : MatchJsons, actions_json : ActionJsons]
RulesB ==
  [id : {2}, user_id : {1, 2}, enabled : {TRUE}, priority : {0},
   match_json : {MatchObject(TRUE, <<KwHi>>), MatchObject(FALSE, <<>>),
                 [kind |-> "invalid", has_keywords |-> FALSE,
                  keywords |-> <<>>],
                 [kind |-> "other", has_keywords |-> FALSE,
                  keywords |-> <<>>]},
   actions_json : {ActionObject({"star", "later"})}]
RuleTables == {<<a, b>> : a \in RulesA, b \in RulesB}

\* entries of user 1 as upsert_entries inserts them
FilterEntries ==
  [title : {<<"H", "i">>, <<"a">>, <<>>}, summary : {<<>>, <<"b">>},
   content_text : {<<"h">>}, author : {<<>>, <<"i">>}]

\* the user_entry_state row of the entry for user 1, if there is one
FlagRows ==
  { [exists |-> TRUE, is_read |-> FALSE, is_starred |-> FALSE,
     is_later |-> FALSE],
    [exists |-> TRUE, is_read |-> TRUE, is_starred |-> FALSE,
     is_later |-> TRUE],
    [exists |-> FALSE, is_read |-> FALSE, is_starred |-> FALSE,
     is_later |-> FALSE] }

\* " ".join([title, summary, content_text, author]).lower()
JoinedText(entry) ==
  LowerText(entry.title \o <<" ">> \o entry.summary \o <<" ">>
            \o entry.content_text \o <<" ">> \o entry.author)

\* _match comparing the keywords as they are written
MatchCaseSensitive(rule, entry) ==
  LET matcher == rule.match_json
      keywords == matcher.keywords
  IN  IF matcher.kind = "invalid" THEN "False"
      ELSE IF matcher.kind # "object" THEN "raise"
      ELSE IF keywords # <<>>
              /\ ~\E n \in 1..Len(keywords) :
                    IsSubstring(keywords[n], JoinedText(entry))
        THEN "False"
      ELSE "True"

\* _match: "False" for text that does not parse; a parsed value that is no
\* object has no .get and the AttributeError escapes ("raise"); a non-empty
\* keyword list none of which occurs in the text gives "False"; everything
\* else, the empty and the missing keyword list included, gives "True"
_match(rule, entry) ==
  LET matcher == rule.match_json
      keywords == [n \in 1..Len(matcher.keywords) |->
                     LowerText(matcher.keywords[n])]
  IN  IF matcher.kind = "invalid" THEN "False"
      ELSE IF matcher.kind # "object" THEN "raise"
      ELSE IF keywords # <<>>
              /\ ~\E n \in 1..Len(keywords) :
                    IsSubstring(keywords[n], JoinedText(entry))
        THEN "False"
      ELSE "True"

\* _apply_actions that assigns each flag the value its action has
ApplyActionsAssign(state, actions) ==
  IF ~state.exists THEN state
  ELSE [state EXCEPT !.is_read = "mark_read" \in actions.on,
                     !.is_starred = "star" \in actions.on,
                     !.is_later = "later" \in actions.on]

\* _apply_actions: nothing without a state row; otherwise each action that
\* is true sets its flag
_apply_actions(state, actions) ==
  IF ~state.exists THEN state
  ELSE [state EXCEPT
          !.is_read = IF "mark_read" \in actions.on THEN TRUE ELSE @,
          !.is_starred = IF "star" \in actions.on THEN TRUE ELSE @,
          !.is_later = IF "later" \in actions.on THEN TRUE ELSE @]

\* the enabled rules of user u, order_by(priority.asc())
RulesOf(table, u) ==
  LET mine == {n \in 1..Len(table) :
                 table[n].user_id = u /\ table[n].enabled}
      before(a, b) ==
        \/ table[a].priority < table[b].priority
        \/ (table[a].priority = table[b].priority /\ a < b)
      place(n) == Cardinality({m \in mine : before(m, n)}) + 1
  IN  [p \in 1..Cardinality(mine) |->
         table[CHOOSE n \in mine : place(n) = p]]

RECURSIVE FilterLoop(_, _, _, _)
\* the loop of apply_filters from rule n on: `out` collects the state row,
\* the ids of the rules evaluated and matched so far
FilterLoop(rules, entry, n, out) ==
  IF n > Len(rules) THEN out
  ELSE
    LET rule == rules[n]
        m == _match(rule, entry)
        seen == [out EXCEPT !.evaluated = Append(@, rule.id)]
    IN  IF m = "raise" THEN [seen EXCEPT !.raised = TRUE]
        ELSE IF m = "False" THEN FilterLoop(rules, entry, n + 1, seen)
        ELSE
          LET hit == [seen EXCEPT !.matched = @ \cup {rule.id}]
          IN  IF rule.actions_json.kind = "invalid"
              THEN FilterLoop(rules, entry, n + 1, hit)
              ELSE IF rule.actions_json.kind # "object"
                THEN [hit EXCEPT !.raised = TRUE]
              ELSE FilterLoop(rules, entry, n + 1,
                     [hit EXCEPT
                        !.state = _apply_actions(@, rule.actions_json)])

\* apply_filters(db, user_id, entry)
apply_filters(table, u, entry, state) ==
  FilterLoop(RulesOf(table, u), entry, 1,
             [state |-> state, evaluated |-> <<>>, matched |-> {},
              raised |-> FALSE])

MaxApplications == 2   \* times apply_filters is applied to one entry

\* a rule table, an entry and its state row; nothing applied yet
RulesInit ==
  /\ \E table \in RuleTables, entry \in FilterEntries, state \in FlagRows :
       flt = [table |-> table, entry |-> entry, before |-> state,
              times |-> 0, run |-> "none",
              out |-> [state |-> state, evaluated |-> <<>>, matched |-> {},
                       raised |-> FALSE]]
  /\ rt = <<>>
  /\ swp = <<>>

\* upsert_entries, line 217: apply_filters on the entry just inserted, for
\* the feed's owner (user 1); an exception is not caught there, so it
\* reaches the handler of process_feed and the run is a failed run
ApplyFiltersCall ==
  /\ flt # <<>>
  /\ flt.times < MaxApplications
  /\ ~flt.out.raised
  /\ LET out == apply_filters(flt.table, 1, flt.entry, flt.out.state)
     IN  flt' = [flt EXCEPT !.before = flt.out.state, !.times = @ + 1,
                            !.out = out,
                            !.run = IF out.raised THEN "failed" ELSE "ok"]
  /\ UNCHANGED <<rt, swp>>

RulesNext ==
  ApplyFiltersCall
    /\ UNCHANGED <<schedVars, dbVars, dueVars, tickVars, feedVars, netVars>>

RulesStart ==
  RulesInit /\ SchedIdle /\ DbIdle /\ DueIdle /\ TickIdle /\ FeedIdle
    /\ NetIdle

SpecRules == RulesStart /\ [][RulesNext]_vars

(***************************************************************************)
(* cleanup.py: cleanup_old_entries, run by scheduler._run_cleanup_tick     *)
(***************************************************************************)
\* An entry's summary and content_html are the sets of cached image names
\* they reference (/api/cache/images/<name>); the names the cache produces
\* are a sha256 digest and an extension, none of them part of another.
DaySeconds == 86400

\* int(time.time()) when the first sweep runs
SweepNow == 40 * DaySeconds

\* sweeps of one behaviour
MaxSweeps == 2

ImageNames == {"a", "b", "c"}

\* the values a feed's cleanup_retention_days column holds (main.py clamps
\* what it stores to 1..3650; models.py defaults to 30)
RetentionColumns == {1, 30}

\* the owner's settings_json: the values stored under cleanup_retention_days
\* ({}: the key is missing)
RetentionDefaults == {{}, {1}}

\* publish and fetch times around the one-day cutoff of the first sweep,
\* and one instant older than thirty days
SweepInstants ==
  {SweepNow - DaySeconds - 1, SweepNow - DaySeconds,
   SweepNow - DaySeconds + 1, SweepNow - 30 * DaySeconds - 1}

SweepFeedRow(f, days, global) ==
  [id |-> f, user_id |-> OwnerOf(f), cleanup_retention_days |-> days,
   use_global_cleanup_retention |-> global]

\* the entry of the item with guid e, as upsert_entries stored it
SweepEntry(e, f, at, summary, html) ==
  [id |-> e, feed_id |-> f, published_at |-> at, summary |-> summary,
   content_html |-> html, hash |-> Sha256(e)]

\* feed_settings.resolve_user_feed_defaults: cleanup_retention_days
UserRetentionDefault(stored) ==
  _clamp_int(IF stored = {} THEN 30 ELSE CHOOSE v \in stored : TRUE,
             1, 3650)

\* feed_settings.resolve_effective_feed_settings: cleanup_retention_days
EffectiveRetention(feed, user_default) ==
  IF feed.use_global_cleanup_retention THEN user_default
  ELSE _clamp_int(feed.cleanup_retention_days, 1, 3650)

\* cleanup._extract_cached_image_names of both texts of an entry
_extract_cached_image_names(entry) == entry.summary \cup entry.content_html

\* the reference check that looks at summaries only
ReferencedInSummary(es, image_name) ==
  \E e \in es : image_name \in e.summary

\* cleanup._is_image_still_referenced: any entry of the store, of any feed
_is_image_still_referenced(es, image_name) ==
  \E e \in es : image_name \in e.summary \/ image_name \in e.content_html

\* a cutoff one second late
CutoffLate(feed, now_ts) ==
  now_ts - Max(1, Min(feed.cleanup_retention_days, 3650)) * DaySeconds + 1

\* cleanup_old_entries, lines 60-61
cutoff_ts(feed, now_ts) ==
  now_ts - Max(1, Min(feed.cleanup_retention_days, 3650)) * DaySeconds

\* the body of the loop over the feeds of a user, lines 60-93; st is the
\* store, the image directory and the counters
SweepFeed(st, feed, now_ts) ==
  LET cutoff == cutoff_ts(feed, now_ts)
      old_logs == {l \in st.logs :
                     l.feed_id = feed.id /\ l.fetched_at < cutoff}
      old_entries == {e \in st.entries :
                        e.feed_id = feed.id /\ e.published_at < cutoff}
      entry_ids == {e.id : e \in old_entries}
      cached_image_names ==
        UNION {_extract_cached_image_names(e) : e \in old_entries}
      kept == st.entries \ old_entries
      unlinked == {n \in cached_image_names :
                     ~_is_image_still_referenced(kept, n)}
      st1 == [st EXCEPT !.logs = @ \ old_logs,
                        !.deleted_logs = @ + Cardinality(old_logs)]
  IN IF old_entries = {} THEN st1
     ELSE [st1 EXCEPT
             !.entries = kept,
             !.states = {r \in @ : ~(r.user_id = feed.user_id
                                      /\ r.entry_id \in entry_ids)},
             !.files = @ \ unlinked,
             !.deleted_entries = @ + Cardinality(entry_ids),
             !.deleted_images = @ + Cardinality(unlinked)]

\* the feeds in the order of the two loops: by user, then by feed
SweepOrder(fs) ==
  CHOOSE s \in [1..Cardinality(fs) -> fs] :
    /\ \A i, j \in 1..Cardinality(fs) :
         i < j => \/ s[i].user_id < s[j].user_id
                  \/ s[i].user_id = s[j].user_id /\ s[i].id < s[j].id

RECURSIVE SweepLoop(_, _, _, _)
SweepLoop(st, order, i, now_ts) ==
  IF i > Len(order) THEN st
  ELSE SweepLoop(SweepFeed(st, order[i], now_ts), order, i + 1, now_ts)

\* cleanup.cleanup_old_entries on the store and the image directory
cleanup_old_entries(es, ss, ls, fs, files, now_ts) ==
  SweepLoop([entries |-> es, states |-> ss, logs |-> ls, files |-> files,
             deleted_entries |-> 0, deleted_images |-> 0,
             deleted_logs |-> 0],
            SweepOrder(fs), 1, now_ts)

\* two feeds of two users, three entries which their owners have read, two
\* log rows and the cached images.  swp.served holds the items the feeds
\* keep serving, swp.removed the (feed, hash) keys of the entries committed
\* sweeps deleted, swp.worker the position of an ingestion run.
SweepInit ==
  /\ \E d1 \in RetentionColumns, g \in BOOLEAN :
       feeds = {SweepFeedRow(1, d1, g), SweepFeedRow(2, 1, FALSE)}
  /\ \E p1, p2 \in SweepInstants,
        p3 \in {SweepNow - DaySeconds - 1, SweepNow - DaySeconds + 1} :
       entries = {SweepEntry(1, 1, p1, {"a"}, {"b"}),
                  SweepEntry(2, 1, p2, {}, {"a"}),
                  SweepEntry(3, 2, p3, {"b"}, {})}
  /\ states = {[user_id |-> OwnerOf(e.feed_id), entry_id |-> e.id,
                 is_read |-> TRUE, is_starred |-> FALSE,
                 is_later |-> FALSE] : e \in entries}
  /\ \E t \in {SweepNow - DaySeconds - 1, SweepNow - DaySeconds} :
       logs = {[id |-> 1, feed_id |-> 1, fetched_at |-> t],
               [id |-> 2, feed_id |-> 2,
                fetched_at |-> SweepNow - 30 * DaySeconds - 1]}
  /\ \E stored \in RetentionDefaults :
       swp = [pc |-> "idle", sweeps |-> 0, files |-> ImageNames,
              defaults |-> [u \in UserIds |->
                              IF u = 1 THEN stored ELSE {}],
              before |-> <<>>, result |-> <<>>, partial |-> <<>>,
              served |-> entries, removed |-> {},
              worker |-> [pc |-> "none", item |-> <<>>]]
  /\ now = SweepNow
  /\ writeLock = "free"
  /\ run = [s \in Sessions |-> IdleRun]
  /\ runsStarted = 0
  /\ sess = <<>>
  /\ due = <<>>
  /\ scanned = FALSE
  /\ fobj = <<>>
  /\ rt = <<>>
  /\ flt = <<>>

\* scheduler._run_cleanup_tick, lines 153-157: the sweep and its commit
CleanupTick ==
  /\ swp.pc = "idle"
  /\ swp.sweeps < MaxSweeps
  /\ LET out == cleanup_old_entries(entries, states, logs, feeds,
                                    swp.files, now)
     IN /\ entries' = out.entries
        /\ states' = out.states
        /\ logs' = out.logs
        /\ swp' = [swp EXCEPT
                     !.pc = "swept",
                     !.sweeps = @ + 1,
                     !.files = out.files,
                     !.before = [entries |-> entries, states |-> states,
                                 logs |-> logs, files |-> swp.files,
                                 now |-> now],
                     !.result = [deleted_entries |-> out.deleted_entries,
                                 deleted_images |-> out.deleted_images,
                                 deleted_logs |-> out.deleted_logs],
                     !.removed = @ \cup {<<e.feed_id, e.hash>> :
                                           e \in entries \ out.entries}]
  /\ UNCHANGED <<feeds, now>>

\* the statements of the loop body after which the sweep may raise: the
\* delete of the fetch logs (62-66), of the state rows (82-85), of the
\* entries (86), the loop over the image names (89-93)
SweepPoints == {"logs", "states", "entries", "images"}

\* the loop body of cleanup_old_entries for one feed, run up to `point`
SweepFeedUpTo(st, feed, now_ts, point) ==
  LET cutoff == cutoff_ts(feed, now_ts)
      old_logs == {l \in st.logs :
                     l.feed_id = feed.id /\ l.fetched_at < cutoff}
      old_entries == {e \in st.entries :
                        e.feed_id = feed.id /\ e.published_at < cutoff}
      entry_ids == {e.id : e \in old_entries}
      st1 == [st EXCEPT !.logs = @ \ old_logs,
                        !.deleted_logs = @ + Cardinality(old_logs)]
      st2 == [st1 EXCEPT
                !.states = {r \in @ : ~(r.user_id = feed.user_id
                                         /\ r.entry_id \in entry_ids)}]
      st3 == [st2 EXCEPT !.entries = @ \ old_entries,
                         !.deleted_entries = @ + Cardinality(entry_ids)]
  IN IF point = "logs" \/ old_entries = {} THEN st1
     ELSE IF point = "states" THEN st2
     ELSE IF point = "entries" THEN st3
     ELSE SweepFeed(st, feed, now_ts)

\* an except clause that commits what the sweep had done
RollbackKeepsPartial(stored, part) ==
  [entries |-> part.entries, states |-> part.states, logs |-> part.logs]

\* scheduler._run_cleanup_tick, lines 158-159: db.rollback() leaves the
\* stored rows as they were before the sweep began
CleanupRollback(stored, part) == stored

\* scheduler._run_cleanup_tick when the sweep raises in the body of feed
\* number k of its loop after `point` (after the last point of the last
\* feed: db.commit() raises).  The rows are rolled back, the warning is
\* logged and the tick returns; unlinked image files stay unlinked.  One
\* sweep of a behaviour raises.
CleanupTickRaises ==
  /\ swp.pc = "idle"
  /\ swp.sweeps < MaxSweeps
  /\ swp.partial = <<>>
  /\ \E k \in 1..Cardinality(feeds), point \in SweepPoints :
       LET order == SweepOrder(feeds)
           done == SweepLoop([entries |-> entries, states |-> states,
                              logs |-> logs, files |-> swp.files,
                              deleted_entries |-> 0, deleted_images |-> 0,
                              deleted_logs |-> 0],
                             SubSeq(order, 1, k - 1), 1, now)
           part == SweepFeedUpTo(done, order[k], now, point)
           kept == CleanupRollback([entries |-> entries, states |-> states,
                                    logs |-> logs], part)
       IN /\ entries' = kept.entries
          /\ states' = kept.states
          /\ logs' = kept.logs
          /\ swp' = [swp EXCEPT
                       !.pc = "rolled_back",
                       !.sweeps = @ + 1,
                       !.files = part.files,
                       !.before = [entries |-> entries, states |-> states,
                                   logs |-> logs, files |-> swp.files,
                                   now |-> now],
                       !.result = <<>>,
                       !.partial = [deleted_entries |-> part.deleted_entries,
                                    deleted_images |-> part.deleted_images,
                                    deleted_logs |-> part.deleted_logs]]
  /\ UNCHANGED <<feeds, now>>

\* upsert_entries, lines 146-170, for an item the feed serves: with the
\* image cache on, cache_images_in_html stores the images of the item that
\* are not in the cache (cache_assets.py 155-157) and rewrites the links
WorkerCacheImages ==
  /\ swp.pc = "idle"
  /\ swp.worker.pc = "none"
  /\ \E item \in swp.served :
       swp' = [swp EXCEPT
                 !.worker = [pc |-> "cached", item |-> item],
                 !.files = @ \cup _extract_cached_image_names(item)]
  /\ UNCHANGED <<feeds, now, entries, states, logs>>

\* upsert_entries, lines 182-218, and the commit of the run: the item is
\* skipped when an entry of the feed has its hash, and inserted with a
\* fresh state row otherwise
WorkerInsert ==
  /\ swp.pc = "idle"
  /\ swp.worker.pc = "cached"
  /\ LET item == swp.worker.item
         id == NextRowId(entries)
     IN IF Exists(entries, item.feed_id, item.hash)
        THEN UNCHANGED <<entries, states>>
        ELSE /\ entries' = entries \cup {[item EXCEPT !.id = id]}
             /\ states' = InsertState(states, OwnerOf(item.feed_id), id)
  /\ swp' = [swp EXCEPT !.worker = [pc |-> "done", item |-> @.item]]
  /\ UNCHANGED <<feeds, now, logs>>

\* the tick returns and a day passes before the cleanup trigger starts
\* another sweep (a multiple of its period, scheduler.py line 178)
SweepDelays == {DaySeconds}

CleanupWait ==
  /\ swp.pc \in {"swept", "rolled_back"}
  /\ swp.sweeps < MaxSweeps
  /\ \E d \in SweepDelays : now' = now + d
  /\ swp' = [swp EXCEPT !.pc = "idle"]
  /\ UNCHANGED <<feeds, entries, states, logs>>

notSweep ==
  <<schedVars, tickVars, netVars, writeLock, run, runsStarted, sess, due,
    scanned, fobj, rt, flt>>

SweepNext ==
  \/ CleanupTick /\ UNCHANGED notSweep
  \/ CleanupTickRaises /\ UNCHANGED notSweep
  \/ CleanupWait /\ UNCHANGED notSweep
  \/ WorkerCacheImages /\ UNCHANGED notSweep
  \/ WorkerInsert /\ UNCHANGED notSweep

SweepStart == SweepInit /\ SchedIdle /\ TickIdle /\ NetIdle

SpecSweep == SweepStart /\ [][SweepNext]_vars

(***************************************************************************)
(* SpecJob: _run_feed_job from the lookup of the feed row to the finally   *)
(* clause, with feeds deleted through the API while jobs wait              *)
(***************************************************************************)
MaxJobRuns == 3   \* work items submitted in one behaviour that may store a run
\* user_id = None
NoUser == 0
JobOutcomes == {"ok", "error", "commit_raises"}

JobFeedRows ==
  { <<r1, r2>> :
      r1 \in [id : {1}, user_id : {OwnerOf(1)}, disabled : BOOLEAN,
              error_count : {0, 9}, last_fetch_at : {0}, last_status : {0}],
      r2 \in [id : {2}, user_id : {OwnerOf(2)}, disabled : BOOLEAN,
              error_count : {0}, last_fetch_at : {0}, last_status : {200}] }

JobInit ==
  /\ feeds \in JobFeedRows
  /\ sess = feeds
  /\ due = <<>>
  /\ now = FeedNow
  /\ scanned = FALSE
  /\ FeedIdle

\* the query of _process_feed_job without the filter on disabled
LookupIgnoresDisabled(rows, feed_id, user_id, include_disabled) ==
  {rows[k] : k \in {i \in 1..Len(rows) :
     /\ rows[i].id = feed_id
     /\ (user_id # NoUser => rows[i].user_id = user_id)}}

\* _process_feed_job, lines 73-78: the rows query.first() can return (the
\* id is the primary key, so there is at most one)
_process_feed_job(rows, feed_id, user_id, include_disabled) ==
  {rows[k] : k \in {i \in 1..Len(rows) :
     /\ rows[i].id = feed_id
     /\ (user_id # NoUser => rows[i].user_id = user_id)
     /\ (~include_disabled => ~rows[i].disabled)}}

\* enqueue_feed_update(feed_id, user_id=, include_disabled=) when submit
\* does not raise: the id is marked and a work item with the three
\* arguments is queued; a call for an id already marked returns False
JobEnqueue(f, u, inc) ==
  /\ Cardinality(logs) + Len(jobs) < MaxJobRuns
  /\ IF f \in feed_in_flight
     THEN UNCHANGED <<feed_in_flight, jobs, feed_executor>>
     ELSE /\ feed_in_flight' = feed_in_flight \cup {f}
          /\ feed_executor' = "current"
          /\ jobs' = Append(jobs, [feed |-> f, exec |-> "current",
                                   st |-> "queued", user_id |-> u,
                                   include_disabled |-> inc])
  /\ UNCHANGED <<pc, callFeed, callExec, tickDue, sdpc, sdExec, manual,
                 feeds, sess, logs>>

\* a pool worker starts _run_feed_job for the oldest queued work item;
\* _process_feed_job looks the feed up and returns when no row is found
\* (lines 79-80), otherwise it calls process_feed
ProcessFeedJobLookup(j) ==
  /\ j \in JobIdx
  /\ jobs[j].st = "queued"
  /\ \A k \in QueuedOn(jobs[j].exec) : j <= k
  /\ Cardinality(RunningOn(jobs[j].exec)) < _resolve_feed_worker_count
  /\ jobs' = [jobs EXCEPT ![j].st =
       IF _process_feed_job(feeds, jobs[j].feed, jobs[j].user_id,
                            jobs[j].include_disabled) = {}
       THEN "returning" ELSE "running"]
  /\ UNCHANGED <<feed_in_flight, feed_executor, pc, callFeed, callExec,
                 tickDue, sdpc, sdExec, manual, feeds, sess, logs>>

\* the row of feed_id replaced by obj
PutRow(rows, obj) ==
  [k \in 1..Len(rows) |-> IF rows[k].id = obj.id THEN obj ELSE rows[k]]

\* what the job stores: process_feed and db.commit() of lines 82-84, or the
\* rollback of line 86.  The UPDATE of a row deleted since the lookup
\* matches nothing and the flush raises, so that run is rolled back too.
ProcessFeedJobStored(rows, ls, feed_id, outcome, at) ==
  IF outcome = "commit_raises" \/ ~\E k \in 1..Len(rows) : rows[k].id = feed_id
  THEN [feeds |-> rows, logs |-> ls]
  ELSE LET row == FeedRow(rows, feed_id)
           obj == IF outcome = "ok"
                  THEN ProcessFeedSuccess([row EXCEPT !.last_status = 200], at)
                  ELSE ProcessFeedExcept(row, at)
           log == IF outcome = "ok" THEN SuccessLog(obj) ELSE FailureLog(obj)
       IN  [feeds |-> PutRow(rows, obj),
            logs |-> ls \cup {[id |-> Cardinality(ls) + 1, row |-> log]}]

\* process_feed ends, the job commits or rolls back, and the finally clause
\* of _run_feed_job discards the id
ProcessFeedJobDone(j, outcome) ==
  /\ JobFinish(j, FALSE)
  /\ \E out \in {ProcessFeedJobStored(feeds, logs, jobs[j].feed, outcome, now)} :
       /\ feeds' = out.feeds
       /\ logs' = out.logs
  /\ sess' = feeds'

\* _process_feed_job returned at line 80; the finally clause of
\* _run_feed_job discards the id
ProcessFeedJobReturns(j) ==
  /\ j \in JobIdx
  /\ jobs[j].st = "returning"
  /\ feed_in_flight' = RunFeedJobExit(feed_in_flight, jobs[j].feed, FALSE)
  /\ jobs' = RemoveAt(jobs, j)
  /\ UNCHANGED <<feed_executor, pc, callFeed, callExec, tickDue, sdpc, sdExec,
                 manual, feeds, sess, logs>>

\* main.py, delete_feed: the owner deletes the feed row
delete_feed(f, u) ==
  /\ \E k \in 1..Len(feeds) : feeds[k].id = f /\ feeds[k].user_id = u
  /\ feeds' = SelectSeq(feeds, LAMBDA r : r.id # f)
  /\ sess' = feeds'
  /\ UNCHANGED <<schedVars, logs>>

notJob ==
  <<dbVars, tickVars, netVars, unitVars, due, now, scanned, fobj>>

JobNext ==
  \/ \E f \in FeedIds, u \in UserIds \cup {NoUser}, inc \in BOOLEAN :
       JobEnqueue(f, u, inc) /\ UNCHANGED notJob
  \/ \E j \in JobIdx : ProcessFeedJobLookup(j) /\ UNCHANGED notJob
  \/ \E j \in JobIdx, outcome \in JobOutcomes :
       ProcessFeedJobDone(j, outcome) /\ UNCHANGED notJob
  \/ \E j \in JobIdx : ProcessFeedJobReturns(j) /\ UNCHANGED notJob
  \/ \E f \in FeedIds, u \in UserIds : delete_feed(f, u) /\ UNCHANGED notJob

JobStartState ==
  JobInit /\ SchedIdle /\ DbIdle /\ TickIdle /\ NetIdle /\ UnitIdle

SpecJob == JobStartState /\ [][JobNext]_vars

(***************************************************************************)
(* Claims about the scheduler                                              *)
(***************************************************************************)
\* process_feed runs in progress for feed f: the running pool jobs and the
\* run main.py started for a manual refresh
FetchesInProgress(f) ==
  Cardinality({j \in JobIdx : jobs[j].st = "running" /\ jobs[j].feed = f})
    + (IF manual.feed = f THEN 1 ELSE 0)

\* C1: at any time at most one process_feed run is executing for a feed id.
C1_AtMostOneFetchPerFeed == \A f \in FeedIds : FetchesInProgress(f) <= 1

\* C2: of two concurrent enqueue_feed_update calls for the same feed id only
\* one takes the insert branch (the other returned False at the membership
\* test), and none is in the except clause about to raise.
C2_SingleFlight ==
  \A t1, t2 \in Callers :
    (t1 # t2 /\ callFeed[t1] # NoFeed /\ callFeed[t1] = callFeed[t2])
      => FALSE

\* C3: every feed id that enters the in-flight set eventually leaves it.
C3_MarkerEventuallyCleared ==
  \A f \in FeedIds : (f \in feed_in_flight) ~> (f \notin feed_in_flight)

\* a marker has left the set while the job it was inserted for is still
\* running (shutdown_feed_workers cleared it)
C3_Witness ==
  \E j \in JobIdx : jobs[j].st = "running" /\ jobs[j].feed \notin feed_in_flight

\* C4: every manual refresh request is dispatched through
\* enqueue_feed_update and answers queued.
C4_ManualRefreshViaEnqueue ==
  manual # NoRequest => (manual.via = "enqueue_feed_update" /\ manual.queued)

(***************************************************************************)
(* Claims about the ingestion pipeline                                     *)
(***************************************************************************)
\* the dedup key as the claim words it: guid, else link, else title
DedupKey(item) ==
  IF ItemGuid(item) # "" THEN ItemGuid(item)
  ELSE IF item.link # "" THEN item.link
  ELSE ItemTitle(item)

DocKeys(doc) == {DedupKey(doc[k]) : k \in 1..Len(doc)}
\* the keys of the rows E holds for feed f, read from the columns guid, url
\* and title
StoredKeys(E, f) ==
  {Or(e.guid, Or(e.url, e.title)) : e \in {x \in E : x.feed_id = f}}

\* C5: when upsert_entries returns, its result is the number of distinct
\* dedup keys of the document that are not stored for the feed; and
\* ingesting a document a second time returns 0 and leaves the rows as the
\* first ingestion made them.
C5_AddedCountsNewKeys ==
  /\ \A s \in Sessions :
       run[s].pc = "upserted" =>
         run[s].added =
           Cardinality(DocKeys(run[s].doc) \ StoredKeys(entries, run[s].feed))
  /\ \A f \in FeedIds, d \in Docs :
       LET first == UpsertEntries(entries, f, d)
           second == UpsertEntries(first.entries, f, d)
       IN  /\ first.added = Cardinality(DocKeys(d) \ StoredKeys(entries, f))
           /\ second.added = 0
           /\ second.entries = first.entries

\* a document is ingested again after its rows were committed: the run
\* returned 0 for a two-item document
C5_Witness ==
  \E s \in Sessions :
    /\ run[s].pc = "upserted"
    /\ Len(run[s].doc) = 2
    /\ run[s].added = 0
    /\ \A k \in 1..2 : Exists(entries, run[s].feed, EntryHash(run[s].doc[k]))

\* C6: no two stored entries share the same (feed_id, hash) pair.
C6_FeedHashUnique ==
  \A e1, e2 \in entries :
    (e1.feed_id = e2.feed_id /\ e1.hash = e2.hash) => e1 = e2

\* two overlapping runs of one feed met on the same item: the second insert
\* was rejected, while the row of the first is stored
C6_Witness ==
  \E s \in Sessions :
    /\ run[s].pc = "failed"
    /\ run[s].err = "IntegrityError"
    /\ \E e \in entries : e.feed_id = run[s].feed

\* C7: every stored entry has exactly one state row of the feed's owner, no
\* (user, entry) pair has two rows, and the row a run works on is all-false
\* when the filters are about to run.
C7_OneStateRowPerEntry ==
  /\ \A e \in entries :
       Cardinality({r \in states : r.entry_id = e.id
                                   /\ r.user_id = OwnerOf(e.feed_id)}) = 1
  /\ \A r1, r2 \in states :
       (r1.user_id = r2.user_id /\ r1.entry_id = r2.entry_id) => r1 = r2
  /\ \A s \in Sessions :
       run[s].pc = "filters" =>
         /\ HasState(VisibleStates(s), OwnerOf(run[s].feed), run[s].eid)
         /\ LET r == StateOf(VisibleStates(s), OwnerOf(run[s].feed), run[s].eid)
            IN  ~r.is_read /\ ~r.is_starred /\ ~r.is_later

\* a second run has started after entries were stored with their rows, one
\* of them marked read by the owner's filter rule and one not
C7_Witness ==
  /\ runsStarted >= 2
  /\ Cardinality(entries) >= 2
  /\ \E r \in states : r.is_read
  /\ \E r \in states : ~r.is_read

(***************************************************************************)
(* Claims about the due-feed selector                                      *)
(***************************************************************************)
InDue(id) == \E k \in 1..Len(due) : due[k] = id

\* the multiplier as the claim tabulates it
ClaimMultiplier(error_count) ==
  IF error_count \in 0..2 THEN 1
  ELSE IF error_count \in 3..4 THEN 4
  ELSE 24

\* the effective interval, in minutes, of a stored feed
EffectiveIntervalMin(feed) ==
  resolve_effective_feed_settings(feed,
                                  resolve_user_feed_defaults(UserDefaultStored))

\* C8: a scan yields an enabled feed with fewer than 10 errors iff
\* now >= last_fetch_at + effective_interval_minutes*60*m; with an interval
\* of 30 minutes that is now - last_fetch_at >= 1800 for 0 errors and
\* >= 7200 for 4 errors.
C8_DueIffIntervalElapsed ==
  scanned =>
    \A k \in 1..Len(feeds) :
      LET feed == feeds[k]
      IN  (~feed.disabled /\ feed.error_count < 10) =>
            /\ InDue(feed.id) <=>
                 now >= feed.last_fetch_at
                          + EffectiveIntervalMin(feed) * 60
                              * ClaimMultiplier(feed.error_count)
            /\ (EffectiveIntervalMin(feed) = 30 /\ feed.error_count = 0) =>
                 (InDue(feed.id) <=> now - feed.last_fetch_at >= 1800)
            /\ (EffectiveIntervalMin(feed) = 30 /\ feed.error_count = 4) =>
                 (InDue(feed.id) <=> now - feed.last_fetch_at >= 7200)

\* a feed with 4 errors and a 30 minute interval was scanned exactly when
\* its 4x interval had elapsed, and was yielded
C8_Witness ==
  /\ scanned
  /\ feeds[1].error_count = 4
  /\ ~feeds[1].disabled
  /\ EffectiveIntervalMin(feeds[1]) = 30
  /\ now - feeds[1].last_fetch_at = 7200
  /\ InDue(1)

C10_NoAutoDisableOnErrors ==
  scanned =>
    \A k \in 1..Len(feeds) :
      ( /\ ~feeds[k].disabled
        /\ feeds[k].error_count >= 10
        /\ feeds[k].last_fetch_at = 0
        /\ now >= EffectiveIntervalMin(feeds[k]) * 60 * 24 ) =>
        (~feeds[k].disabled /\ InDue(feeds[k].id))

(***************************************************************************)
(* Claims about the fetch tick                                             *)
(***************************************************************************)
RowOf(id) == CHOOSE r \in {feeds[k] : k \in 1..Len(feeds)} : r.id = id

InCalls(id) == \E k \in 1..Len(tickCalls) : tickCalls[k] = id

\* C11: after a fetch tick, every feed its scan marked disabled
\* (error_count >= 10) is disabled in the feeds table, also when the tick
\* enqueued nothing.
C11_TickPersistsDisable ==
  \A id \in tickMarked : RowOf(id).disabled

C17_NoStarvation ==
  \A id \in 1..3 :
    (~RowOf(id).disabled /\ ~AutoDisable(RowOf(id))
       /\ IsDue(RowOf(id), resolve_user_feed_defaults(UserDefaultStored), now))
      ~> InCalls(id)

(***************************************************************************)
(* Claims about process_feed and the feed row                              *)
(***************************************************************************)
\* session s commits its run in this step
Commits(s) == run[s].pc \in {"upserted", "failed"} /\ run'[s].pc = "idle"
                /\ logs' # logs

\* the handler of process_feed runs in session s in this step
Handles(s) == run[s].pc # "failed" /\ run'[s].pc = "failed"

\* C12: no step (a process_feed run that succeeds, gets a 304 or fails, also
\* on a disabled feed; the due-feed scan of a tick; the cleanup sweep) turns
\* a stored disabled = True into False.
C12_DisabledIsSticky ==
  [][\A k \in 1..Len(feeds) : feeds[k].disabled => feeds'[k].disabled]_vars

\* a run on a disabled feed was committed and reset its error_count
C12_Witness ==
  \E l \in logs :
    /\ FeedRow(feeds, l.row.feed_id).disabled
    /\ l.row.error_message = "None"
    /\ FeedRow(feeds, l.row.feed_id).error_count = 0

\* C13: a run whose fetch got 304 adds no entry, changes no stored entry or
\* state row, returns 0, and stores error_count 0, last_fetch_at = now and
\* last_status 304, with a fetch log of status 304.
C13_NotModified ==
  [][\A s \in Sessions :
       (Commits(s) /\ run[s].pc = "upserted" /\ fobj[s].obj.last_status = 304)
         => /\ run[s].added = 0
            /\ entries' = entries
            /\ states' = states
            /\ FeedRow(feeds', run[s].feed).error_count = 0
            /\ FeedRow(feeds', run[s].feed).last_fetch_at = now
            /\ FeedRow(feeds', run[s].feed).last_status = 304
            /\ \E l \in logs' \ logs :
                 l.row.status = 304 /\ l.row.error_message = "None"]_vars

\* a 304 run of feed 1 was committed
C13_Witness ==
  /\ \E l \in logs : l.row.feed_id = 1 /\ l.row.status = 304
  /\ FeedRow(feeds, 1).last_status = 304
  /\ FeedRow(feeds, 1).error_count = 0
  /\ FeedRow(feeds, 1).last_fetch_at = FeedNow

C15_FailureKeepsData ==
  [][\A s \in Sessions :
       /\ Handles(s) => (run'[s].pendE = {} /\ run'[s].pendS = {})
       /\ (Commits(s) /\ run[s].pc = "failed") =>
            /\ entries' = entries
            /\ states' = states
            /\ \A c \in {"etag", "last_modified", "title", "site_url",
                         "disabled"} :
                 FeedRow(feeds', run[s].feed)[c]
                   = FeedRow(feeds, run[s].feed)[c]]_vars

\* a run failed at its second item after it had inserted the first one
C15_Witness ==
  \E s \in Sessions :
    /\ run[s].pc = "failed"
    /\ run[s].err = "error"
    /\ run[s].i = 2
    /\ ~\E e \in entries : e.feed_id = run[s].feed
    /\ fobj[s].obj.title = "Old"

(***************************************************************************)
(* Claims about the outbound safety gate                                   *)
(***************************************************************************)

\* the URL has a scheme other than http/https, no host, or credentials
BadShape(u) ==
  \/ SchemeLower(u.scheme) \notin {"http", "https"}
  \/ u.hostname = ""
  \/ u.username # ""
  \/ u.password # ""

\* the addresses the host of a URL stands for: itself when it is a literal
\* IP, otherwise what the name resolves to
TargetAddresses(u) ==
  IF u.hostname \in Addresses THEN {u.hostname}
  ELSE getaddrinfo(u.hostname).ips

BlockedKinds ==
  {"is_private", "is_loopback", "is_link_local", "is_multicast",
   "is_reserved", "is_unspecified"}

\* one of the addresses is of a blocked kind
BlockedTarget(u) ==
  \E a \in TargetAddresses(u) : Flags(a) \cap BlockedKinds # {}

\* the host is a name for which the resolver gives no address
Unresolvable(u) == u.hostname \in HostNames /\ TargetAddresses(u) = {}

\* C18 as stated: the gate rejects exactly the URLs of a bad shape and,
\* with blocking enabled, those with a blocked literal or resolved address;
\* every other URL is accepted and returned.
C18_GateAsStated ==
  gate # <<>> =>
    LET u == Strip(gate.url)
    IN  /\ (gate.out.kind # "ok") <=>
             (BadShape(u) \/ (block /\ BlockedTarget(u)))
        /\ gate.out.kind = "ok" => gate.out.value = u

\* C18: the gate rejects exactly the URLs of a bad shape and, with blocking
\* enabled, those whose host name cannot be resolved and those with a
\* blocked literal or resolved address; every other URL is accepted and
\* returned without its surrounding whitespace.
C18_GateDecision ==
  gate # <<>> =>
    LET u == Strip(gate.url)
    IN  /\ (gate.out.kind # "ok") <=>
             (BadShape(u)
                \/ (block /\ (Unresolvable(u) \/ BlockedTarget(u))))
        /\ gate.out.kind = "ok" => gate.out.value = u

\* with blocking enabled, a well-formed URL whose host name does not
\* resolve was rejected
C18_Witness ==
  /\ gate # <<>>
  /\ block
  /\ ~BadShape(Strip(gate.url))
  /\ Unresolvable(Strip(gate.url))
  /\ gate.out.kind # "ok"

\* C19: every request put on the wire during a call is for a URL the gate
\* returned during that call, and a call the gate rejected sends nothing.
C19_GateBeforeEveryRequest ==
  /\ \A i \in 1..Len(sent) : sent[i] \in checked
  /\ (call # <<>> /\ call.pc = "rejected") => sent = <<>>

RECURSIVE Concat(_, _)
\* the bytes of the first k chunks
Concat(chunks, k) ==
  IF k = 0 THEN <<>> ELSE Concat(chunks, k - 1) \o chunks[k]

\* the outcome stated for a body under a limit
LimitedOutcome(chunks, limit_bytes) ==
  IF Len(Concat(chunks, Len(chunks))) <= limit_bytes
  THEN [kind |-> "ok", data |-> Concat(chunks, Len(chunks)),
        consumed |-> Len(chunks)]
  ELSE [kind |-> "too_large", data |-> <<>>,
        consumed |-> CHOOSE k \in 1..Len(chunks) :
                       /\ Len(Concat(chunks, k)) > limit_bytes
                       /\ Len(Concat(chunks, k - 1)) <= limit_bytes]

\* C20: on every body and limit the two readers give the same outcome: all
\* the bytes when they fit the limit, otherwise the rejection at the first
\* chunk that takes the count over the limit, no later chunk consumed.
C20_ReadersAgree ==
  rdr # <<>> =>
    /\ rdr.sync = rdr.async
    /\ rdr.sync = LimitedOutcome(rdr.chunks, rdr.limit)

\* a body was rejected before its last chunk was taken
C20_Witness ==
  /\ rdr # <<>>
  /\ rdr.sync.kind = "too_large"
  /\ rdr.async.kind = "too_large"
  /\ rdr.sync.consumed < Len(rdr.chunks)
  /\ rdr.chunks[Len(rdr.chunks)] # <<>>

(***************************************************************************)
(* Claims about the retry loop of fetch_feed                               *)
(***************************************************************************)
\* C21: when an attempt of fetch_feed is rejected by the safety gate, that
\* attempt is the only one: the rejection surfaces at once.
C21_RejectionNotRetried ==
  (rt # <<>> /\ rt.last = "UnsafeOutboundUrlError")
    => (rt.attempts = 1 /\ rt.pc \in {"raised", "recorded"})

\* C22: fetch_feed makes at most 3 attempts; when the last of them hit a
\* timeout or a connection failure the run is recorded with the matching
\* message and error_count goes up by exactly 1.
C22_RetryBudget ==
  [][/\ (rt' # <<>>) => rt'.attempts <= 3
     /\ (rt # <<>> /\ rt' # <<>> /\ rt.pc = "raised" /\ rt'.pc = "recorded"
           /\ rt.exc.inner \in TimeoutClasses \cup {"ConnectError"})
          => /\ FeedRow(feeds', rt.feed).error_count
                  = FeedRow(feeds, rt.feed).error_count + 1
             /\ \E l \in logs' \ logs :
                  /\ l.row.feed_id = rt.feed
                  /\ l.row.error_message
                       = IF rt.exc.inner = "ConnectError" THEN "connect"
                         ELSE "timeout"]_vars

\* a run whose three attempts failed, the last one by a connect timeout,
\* was recorded once
C22_Witness ==
  /\ rt # <<>>
  /\ rt.pc = "recorded"
  /\ rt.attempts = 3
  /\ rt.exc.inner = "ConnectTimeout"
  /\ FeedRow(feeds, rt.feed).error_count = rt.before + 1
  /\ \E l \in logs : l.id = rt.run /\ l.row.error_message = "timeout"

(***************************************************************************)
(* Claims about the filter rules                                           *)
(***************************************************************************)
\* the rules apply_filters reads for user 1
EnabledRules == {flt.table[n] : n \in {m \in 1..Len(flt.table) :
                    flt.table[m].user_id = 1 /\ flt.table[m].enabled}}
HasKeywords(r) ==
  r.match_json.kind = "object" /\ r.match_json.keywords # <<>>
Malformed(r) ==
  r.match_json.kind # "object" \/ r.actions_json.kind # "object"
Flags3 == {"is_read", "is_starred", "is_later"}
ActionOf(flag) ==
  CASE flag = "is_read" -> "mark_read"
    [] flag = "is_starred" -> "star"
    [] flag = "is_later" -> "later"

\* title, summary, extracted text and author put one after the other
PlainConcat(entry) ==
  entry.title \o entry.summary \o entry.content_text \o entry.author

\* C23 as stated: an evaluated rule with keywords matches iff one of them is
\* a case-insensitive substring of title + summary + text + author, and the
\* "hi" rule with mark_read leaves the entry titled "Hi" read.
C23_MatchOnConcatenation ==
  (flt # <<>> /\ flt.times >= 1) =>
    \A r \in EnabledRules :
      (HasKeywords(r) /\ \E n \in 1..Len(flt.out.evaluated) :
                            flt.out.evaluated[n] = r.id)
        => ((r.id \in flt.out.matched) <=>
              \E n \in 1..Len(r.match_json.keywords) :
                IsSubstring(LowerText(r.match_json.keywords[n]),
                            LowerText(PlainConcat(flt.entry))))

\* C23: an evaluated rule with keywords matches iff one of them is a
\* case-insensitive substring of title, summary, text and author joined by
\* single spaces; the "hi" rule with mark_read leaves the entry titled "Hi"
\* read.
C23_MatchOnJoinedText ==
  (flt # <<>> /\ flt.times >= 1) =>
    \A r \in EnabledRules :
      (HasKeywords(r) /\ \E n \in 1..Len(flt.out.evaluated) :
                            flt.out.evaluated[n] = r.id)
        => /\ (r.id \in flt.out.matched) <=>
                \E n \in 1..Len(r.match_json.keywords) :
                  IsSubstring(
                    LowerText(r.match_json.keywords[n]),
                    LowerText(flt.entry.title \o <<" ">> \o flt.entry.summary
                              \o <<" ">> \o flt.entry.content_text
                              \o <<" ">> \o flt.entry.author))
           /\ (/\ r.match_json.keywords = <<KwHi>>
               /\ r.actions_json = ActionObject({"mark_read"})
               /\ flt.entry.title = <<"H", "i">>
               /\ flt.before.exists
               /\ ~flt.out.raised) => flt.out.state.is_read

\* the rule with keyword "hi" and action mark_read matched the unread entry
\* titled "Hi" and marked it read
C23_Witness ==
  /\ flt # <<>>
  /\ flt.times = 1
  /\ flt.entry.title = <<"H", "i">>
  /\ \E r \in EnabledRules :
       /\ r.match_json.keywords = <<KwHi>>
       /\ r.actions_json = ActionObject({"mark_read"})
       /\ r.id \in flt.out.matched
  /\ ~flt.before.is_read
  /\ flt.out.state.is_read

\* C24: a rule whose match JSON is {} or whose keyword list is empty never
\* matches, so it changes no flag.
C24_EmptyRuleNeverFires ==
  (flt # <<>> /\ flt.times >= 1) =>
    \A r \in EnabledRules :
      (r.match_json.kind = "object" /\ r.match_json.keywords = <<>>)
        => /\ r.id \notin flt.out.matched
           /\ (EnabledRules = {r} => flt.out.state = flt.before)

\* C25: with a rule whose match or actions JSON does not parse or is no
\* object, apply_filters returns, every enabled rule is evaluated, the run
\* is not a failed run, and if no rule is well-formed no flag changes.
C25_MalformedRuleIsHarmless ==
  (flt # <<>> /\ flt.times >= 1 /\ \E r \in EnabledRules : Malformed(r)) =>
    /\ ~flt.out.raised
    /\ flt.run = "ok"
    /\ \A r \in EnabledRules :
         \E n \in 1..Len(flt.out.evaluated) : flt.out.evaluated[n] = r.id
    /\ (\A r \in EnabledRules : Malformed(r)) => flt.out.state = flt.before

\* C30: no flag goes from true to false; when apply_filters returns, the
\* rules were evaluated in ascending priority, all of them, each flag is its
\* previous value or set by a matching rule's action, and a second
\* application changes nothing.
C30_ActionsCumulative ==
  (flt # <<>> /\ flt.times >= 1) =>
    /\ \A f \in Flags3 : flt.before[f] => flt.out.state[f]
    /\ ~flt.out.raised =>
         /\ {flt.out.evaluated[n] : n \in 1..Len(flt.out.evaluated)}
              = {r.id : r \in EnabledRules}
         /\ Len(flt.out.evaluated) = Cardinality(EnabledRules)
         /\ \A n, m \in 1..Len(flt.out.evaluated) :
              n < m =>
                \A a, b \in EnabledRules :
                  (a.id = flt.out.evaluated[n] /\ b.id = flt.out.evaluated[m])
                    => a.priority <= b.priority
         /\ flt.before.exists =>
              \A f \in Flags3 :
                flt.out.state[f] <=>
                  \/ flt.before[f]
                  \/ \E r \in EnabledRules :
                       /\ _match(r, flt.entry) = "True"
                       /\ r.actions_json.kind = "object"
                       /\ ActionOf(f) \in r.actions_json.on
         /\ flt.times = 2 => flt.out.state = flt.before

\* both rules matched an entry with no flag set; the one with the lower
\* priority value was evaluated first and all three flags are set
C30_Witness ==
  /\ flt # <<>>
  /\ flt.times = 1
  /\ flt.out.evaluated = <<2, 1>>
  /\ flt.out.matched = {1, 2}
  /\ \A f \in Flags3 : ~flt.before[f] /\ flt.out.state[f]

(***************************************************************************)
(* Claims about the cleanup sweep                                          *)
(***************************************************************************)
\* the row of feed f
SweptFeed(f) == CHOOSE row \in feeds : row.id = f

\* the entries of store es published before now_ts - days(feed) * 86400
OlderThan(es, now_ts, days(_)) ==
  {e \in es :
     e.published_at < now_ts - days(SweptFeed(e.feed_id)) * DaySeconds}

\* the retention column of a feed, and its effective retention setting
ColumnDays(feed) == feed.cleanup_retention_days
EffectiveDays(feed) ==
  EffectiveRetention(feed, UserRetentionDefault(swp.defaults[feed.user_id]))

\* C26: a sweep deletes exactly the entries published before the cutoff of
\* their feed, now - retention_days * 86400 with retention_days the feed's
\* retention column, together with their state rows and the fetch-log rows
\* of the feed older than the cutoff: an entry published
\* retention_days * 86400 + 1 seconds ago is deleted, one published
\* retention_days * 86400 - 1 seconds ago is kept, and nothing published at
\* or after the cutoff is deleted.
C26_SweepDeletesOld ==
  swp # <<>> /\ swp.pc = "swept" =>
    LET b == swp.before
        old == OlderThan(b.entries, b.now, ColumnDays)
    IN /\ entries = b.entries \ old
       /\ states = {r \in b.states : r.entry_id \notin {e.id : e \in old}}
       /\ logs = {l \in b.logs :
                    l.fetched_at >= b.now - ColumnDays(SweptFeed(l.feed_id))
                                              * DaySeconds}
       /\ swp.result.deleted_entries = Cardinality(old)
       /\ \A e \in b.entries :
            LET age == b.now - e.published_at
                span == ColumnDays(SweptFeed(e.feed_id)) * DaySeconds
            IN /\ age = span + 1 => e \notin entries
               /\ age = span - 1 => e \in entries
               /\ age <= span => e \in entries

\* a sweep deleted an entry one second older than the cutoff with its state
\* row, kept one a second younger, and deleted a log row
C26_Witness ==
  /\ swp # <<>> /\ swp.pc = "swept"
  /\ \E e \in swp.before.entries :
       /\ swp.before.now - e.published_at
            = ColumnDays(SweptFeed(e.feed_id)) * DaySeconds + 1
       /\ e \notin entries
       /\ \E r \in swp.before.states : r.entry_id = e.id /\ r \notin states
  /\ \E e \in entries :
       swp.before.now - e.published_at
         = ColumnDays(SweptFeed(e.feed_id)) * DaySeconds - 1
  /\ swp.result.deleted_logs > 0

\* C27: the cutoff of a feed comes from its effective retention setting (the
\* feed's column when it overrides, else the owner's default, else 30): a
\* sweep deletes exactly the entries older than that many days.
C27_CutoffFromEffectiveRetention ==
  swp # <<>> /\ swp.pc = "swept" =>
    entries = swp.before.entries
                \ OlderThan(swp.before.entries, swp.before.now, EffectiveDays)

\* C28: after a sweep, a cached image referenced by a deleted entry is gone
\* when no surviving entry references it, and is still there when some
\* surviving entry, of any feed, references it in its summary or its HTML
\* body; images no deleted entry referenced are left alone.
C28_ImagesFollowReferences ==
  swp # <<>> /\ swp.pc = "swept" =>
    LET b == swp.before
        gone == b.entries \ entries
        named == UNION {e.summary \cup e.content_html : e \in gone}
        live == UNION {e.summary \cup e.content_html : e \in entries}
    IN swp.files = b.files \ (named \ live)

\* a sweep removed an image only deleted entries referenced and kept one
\* that a surviving entry references in its HTML body only
C28_Witness ==
  /\ swp # <<>> /\ swp.pc = "swept"
  /\ \E e \in swp.before.entries \ entries :
       \E n \in e.summary \cup e.content_html :
         n \in swp.before.files /\ n \notin swp.files
  /\ \E e \in swp.before.entries \ entries :
       \E n \in e.summary \cup e.content_html :
         /\ n \in swp.files
         /\ \E k \in entries : n \in k.content_html
         /\ ~\E k \in entries : n \in k.summary

(***************************************************************************)
(* Claims about the worker pool                                            *)
(***************************************************************************)
\* the feeds a pool worker is processing, and those waiting for one
RunningFeeds == {jobs[j].feed : j \in {k \in JobIdx : jobs[k].st = "running"}}
QueuedFeeds == {jobs[j].feed : j \in {k \in JobIdx : jobs[k].st = "queued"}}

\* the bound the specification states for the running feeds
StatedWorkers == Max(1, Min(4, scheduler_max_feeds_per_tick))

RunEnds(s) == run[s].pc \in {"upserted", "failed"} /\ run'[s].pc = "idle"

\* C31: the end of every process_feed run (its caller's commit, whether it
\* succeeds or raises) stores exactly one new fetch log row of the feed,
\* with no error message when the run succeeded and with one when it
\* failed, and keeps every earlier row as it was.
C31_OneLogPerRun ==
  [][\A s \in Sessions :
       RunEnds(s) =>
         /\ logs \subseteq logs'
         /\ Cardinality(logs' \ logs) = 1
         /\ \A l \in logs' \ logs :
              /\ l.row.feed_id = run[s].feed
              /\ (l.row.error_message = "None") = (run[s].pc = "upserted")]_vars

(***************************************************************************)
(* Claims about a sweep that raises, and about sweeps beside ingestion     *)
(***************************************************************************)
\* C32: when the sweep raises, at whatever point, the tick ends with the
\* stored entries, state rows and fetch logs as they were before it began,
\* and returns: nothing outside the sweep's own state changes.
C32_RaisingSweepRollsBack ==
  [][(swp # <<>> /\ swp.pc = "idle" /\ swp'.pc = "rolled_back") =>
       /\ entries' = entries
       /\ states' = states
       /\ logs' = logs
       /\ UNCHANGED <<feeds, notSweep>>]_vars

\* a sweep that had deleted entries and fetch logs raised and was rolled back
C32_Witness ==
  /\ swp # <<>> /\ swp.pc = "rolled_back"
  /\ swp.partial.deleted_entries > 0
  /\ swp.partial.deleted_logs > 0
  /\ entries = swp.before.entries
  /\ logs = swp.before.logs

\* C35: an entry a sweep removed is never in the store again: no entry of
\* the store has the feed and hash of a removed one.
C35_NoRecreation ==
  swp # <<>> =>
    \A e \in entries : <<e.feed_id, e.hash>> \notin swp.removed

\* C36: no stored entry references, in its summary or its HTML body, a
\* cached image whose file is not in the image cache.
C36_NoDanglingImage ==
  swp # <<>> =>
    \A e \in entries : _extract_cached_image_names(e) \subseteq swp.files

\* C33: a run whose fetch_feed returned (a 2xx response or a 304) is
\* recorded with error_count 0.
C33_SuccessResetsErrorCount ==
  [][(rt # <<>> /\ rt' # <<>> /\ rt.pc = "returned" /\ rt'.pc = "recorded")
       => FeedRow(feeds', rt.feed).error_count = 0]_vars

\* C34: a fetch log row of a failed attempt never has status 200 or 304.
C34_FailureRowStatus ==
  \A l \in logs :
    l.row.error_message # "None" => l.row.status \notin {200, 304}

\* C37: with blocking enabled, no request of a call goes to a URL whose
\* literal or resolved address is of a blocked kind, whether it is the URL
\* the helper was given or the target of a redirect it followed.
C37_NoBlockedConnection ==
  block => \A i \in 1..Len(sent) : ~BlockedTarget(sent[i])

(***************************************************************************)
(* Claims about the in-flight markers and the job's lookup                 *)
(***************************************************************************)
\* C38: the in-flight set is the set of the feed ids that have a queued or
\* running job, or a call of enqueue_feed_update between its insert and its
\* submit.
C38_InFlightMatchesJobs ==
  feed_in_flight =
    {jobs[j].feed : j \in JobIdx}
      \cup {callFeed[t] : t \in {c \in Callers : Accepted(c)}}

\* the row of the job's feed, as a set (empty when the feed was deleted)
RowOfJob(j) == {feeds[k] : k \in {i \in 1..Len(feeds) : feeds[i].id = jobs[j].feed}}

\* the worker starts job j in this step
Starts(j) ==
  /\ Len(jobs') = Len(jobs)
  /\ jobs[j].st = "queued"
  /\ jobs'[j].st # "queued"

\* C39: a job enqueued without include_disabled that a worker starts while
\* its feed is disabled or deleted, and a job enqueued with a user id whose
\* feed belongs to another user, does not call process_feed; when such a
\* job ends, the feed rows and the fetch logs are as before and the feed's
\* in-flight marker is gone.
C39_JobSkipsHiddenFeed ==
  [][\A j \in JobIdx :
       /\ Starts(j) =>
            /\ (/\ ~jobs[j].include_disabled
                /\ \A r \in RowOfJob(j) : r.disabled)
                 => jobs'[j].st = "returning"
            /\ (/\ jobs[j].user_id # NoUser
                /\ \A r \in RowOfJob(j) : r.user_id # jobs[j].user_id)
                 => jobs'[j].st = "returning"
       /\ (jobs[j].st = "returning" /\ jobs' = RemoveAt(jobs, j)) =>
            /\ feeds' = feeds
            /\ logs' = logs
            /\ jobs[j].feed \notin feed_in_flight']_vars

\* two started jobs: one of the tick's kind that found its feed disabled,
\* and one with a user id that found its feed owned by another user
C39_Witness ==
  /\ feeds # <<>>
  /\ \E j \in JobIdx :
       /\ jobs[j].st = "returning"
       /\ "include_disabled" \in DOMAIN jobs[j]
       /\ ~jobs[j].include_disabled
       /\ jobs[j].user_id = NoUser
       /\ \E r \in RowOfJob(j) : r.disabled
  /\ \E j \in JobIdx :
       /\ jobs[j].st = "returning"
       /\ "include_disabled" \in DOMAIN jobs[j]
       /\ jobs[j].user_id # NoUser
       /\ \E r \in RowOfJob(j) : ~r.disabled /\ r.user_id # jobs[j].user_id
====
